---------------------------- MODULE Spec2Model ----------------------------
(***************************************************************************)
(* A model of the OpenBlock block engine (src/block-engine/src).           *)
(*                                                                         *)
(* Part I   TransactionPool (transaction_pool.rs): the bundle map, the     *)
(*          pending queue, the two RwLocks and the broadcast channel of    *)
(*          pool events, with every handler cut into the steps between     *)
(*          which another task can run.                                    *)
(* Part II  AuctionWindow (auction.rs): the time-boxed collector, the      *)
(*          ranking and the selection of winners.                          *)
(* Parts III to VII: BlockAssembler, TransactionSimulator and the heap     *)
(*          BundleAuction, block hashing, MockValidator and                *)
(*          ValidatorNetwork, the engine loop of main.rs.                  *)
(* Parts VIII to XII: BundleAuction over MockSolanaRpcClient,              *)
(*          MockValidatorClient, simulate_auction_with_bundles step by     *)
(*          step, the engine loop next to the producers of its Redis key,  *)
(*          and a set of pool calls started together.                      *)
(*                                                                         *)
(* A bundle is the record [id, tip, ntx]: its Uuid (an integer, ordered    *)
(* as Uuid's Ord orders the 128-bit value), tip_lamports, and the number   *)
(* of transactions it carries (Bundle::validate reads nothing else of      *)
(* them).                                                                  *)
(***************************************************************************)
EXTENDS Integers, Sequences, FiniteSets, TLC

\* ------------------------------------------------------------------ bounds
MaxId == 2            \* bundle ids are 1..MaxId
MaxPoolSize == 2      \* max_pool_size is drawn from 0..MaxPoolSize
MaxQueue == 2         \* no add_bundle to a pool with room is started once the queue is this long
MaxCount == 2         \* get_pending_bundles(count), count in 0..MaxCount
NumTasks == 2         \* concurrent tasks sharing the pool
EventCap == 1         \* slots of the broadcast channel (1000 in the source)
MaxMissed == 1        \* no mutation is started once a receiver lags this far

MaxWindowBundles == 3 \* ids of the bundles of one auction window
MaxWindowTip == 2     \* their tips are 1..MaxWindowTip
MaxDuration == 1      \* duration_ms is drawn from 0..MaxDuration
MaxBundlesForBlock == 2  \* max_bundles_for_block is drawn from 0..this
TicksPerMs == 2       \* clock ticks per millisecond

MaxSends == 2         \* bundles the sending task submits to one window
ChanCap == 1          \* capacity of the mpsc channel of bundles

MaxWinners == 2       \* bundles handed to the block assembler
MaxTxLimit == 2       \* max_transactions is drawn from 0..MaxTxLimit

MaxHeapTip == 2       \* their tips are 1..MaxHeapTip
MaxHeap == 2          \* no add_bundle once the heap holds this many
MaxSelect == 2        \* select_winning_bundles(k), k in 0..MaxSelect

TicksPerSec == 2      \* ticks of SystemTime per second
MaxHashTicks == 3     \* ticks that pass while blocks are assembled
MaxAssemblies == 2    \* assemblies of the same winning bundles

NumValidators == 2    \* validators of the network
MaxSubmissions == 2   \* submit_block calls, and submit_block_to_network calls
MaxValTx == 1         \* a validator's max_transactions is drawn from 0..MaxValTx

MaxRedis == 2         \* bundles stored under one window's key
MaxRuns == 2          \* passes of the engine loop over the same input

MaxClientCalls == 3   \* submit_block calls on a MockValidatorClient

MaxPreBundles == 2    \* bundles supplied to simulate_auction_with_bundles

MaxPushes == 4        \* entries producers push to one window's key

\* ------------------------------------------------------- program constants
MaxBundleTx == 5      \* bundle.rs:31
ComputeUnitsPerTx == 5000         \* block_assembler.rs:127
LamportsPerTransaction == 5000    \* block_assembler.rs:105
ValidatorComputeUnitsPerTx == 5000     \* validator.rs:111
DefaultMaxTransactions == 100          \* validator.rs:30
DefaultMaxComputeUnits == 1000000      \* validator.rs:31
MAX_BUNDLES_FOR_BLOCK == 5             \* main.rs:80

\* ----------------------------------------------------------------- values
Ids == 1..MaxId
Tips == {1, 2}
TxLens == {0, MaxBundleTx, MaxBundleTx + 1}
Tasks == 1..NumTasks
Bundle == [id : Ids, tip : Tips, ntx : TxLens]

PoolEvent == [kind : {"BundleAdded", "BundleRemoved"}, id : Ids]

BundleAdded(id) == [kind |-> "BundleAdded", id |-> id]

BundleRemoved(id) == [kind |-> "BundleRemoved", id |-> id]

Min(a, b) == IF a < b THEN a ELSE b

Range(s) == {s[i] : i \in 1..Len(s)}

VARIABLES
    \* TransactionPool
    bundles,          \* HashMap<Uuid, Bundle>: a function from the keys held
    pending_queue,    \* VecDeque<Uuid>
    max_pool_size,
    bundles_lock,     \* the RwLock around bundles
    queue_lock,       \* the RwLock around pending_queue
    event_channel,    \* the broadcast channel behind event_sender
    \* the tasks that call the pool
    pc, arg, ret,
    \* history of the running call and of the publications
    pre,              \* pool as it was when the call entered its critical section
    sent,             \* events the running call has passed to send()
    unsent,           \* effects on the map whose event is not yet passed to send()
    undelivered,      \* effects the subscriber has still to receive
    \* AuctionWindow
    clock,            \* Instant::now(), in ticks of 1/TicksPerMs ms
    start_time,
    duration_ms,
    max_bundles_for_block,
    window_bundles,   \* AuctionWindow.bundles
    collected,        \* the bundles the window accepted, in arrival order
    closed_seen,      \* a call has found the window closed
    w_last,           \* the last call on the window and what it returned
    \* simulate_auction_window and the task that sends it bundles
    chan,             \* the mpsc channel of bundles
    sender_open,      \* the Sender is not dropped yet
    receiver_alive,   \* the Receiver is not dropped yet
    c_pc,             \* where the collector is
    deadline,         \* when the sleep of wait_for_window_close ends
    sent_log,         \* each send: the bundle, whether it was late, the result
    stream_result,    \* what simulate_auction_window returned
    exit_reason,      \* how the collection loop ended
    \* BlockAssembler and its caller
    leader_pubkey,
    max_transactions_per_block,
    max_compute_units_per_block,
    winning_bundles,  \* the winners the caller hands over
    template,         \* the BlockTemplate the caller holds
    block,            \* the Block an entry point returned
    entry,            \* which entry point returned it
    verdict,          \* what validate_block said of it
    \* TransactionSimulator and its caller
    sim_bundle,       \* the bundle handed to validate_bundle
    sim_result,       \* what validate_bundle returned
    \* BundleAuction
    simulator,        \* whether Option<TransactionSimulator> is Some
    auction_heap,     \* BundleAuction.bundles
    h_last,           \* the last call on the auction and what it returned
    \* block hashing (block_assembler.rs)
    sys_time,         \* SystemTime::now(), in ticks since the epoch
    unique_counter,   \* the counter behind Hash::new_unique()
    hash_bundles,     \* the winning bundles that are assembled
    assemblies,       \* the assemblies made so far, oldest first
    \* MockValidator and ValidatorNetwork (validator.rs)
    validators,       \* per validator: failure_rate and the two limits
    accepted_blocks,  \* per validator: Vec<Block>
    rejected_blocks,  \* per validator: Vec<(Block, String)>
    submissions,      \* the submit_block calls made directly by callers
    net,              \* the call of submit_block_to_network
    completed,        \* per validator: submissions completed since clear_history
    signature_counter, \* the counter behind Signature::new_unique()
    \* the engine loop (main.rs) and the demo (auction_demo.rs)
    redis_bundles,    \* the bundles stored under the window's key
    runs,             \* the passes over that input made so far
    demo_block,       \* the block the demo assembled from a pass's winners
    \* BundleAuction over a simulator with MockSolanaRpcClient
    simulation_failures, \* MockSolanaRpcClient.simulation_failures
    sim_rejected,     \* add_bundle has rejected a bundle for a failed simulation
    \* MockValidatorClient (block_assembler.rs)
    should_fail,
    submitted_blocks, \* the Vec<Block> behind the RwLock
    client_signatures, \* the counter behind Signature::new_unique()
    client_log,       \* the submit_block calls made, oldest first
    \* simulate_auction_with_bundles
    pre_input,        \* bundles: Vec<Bundle>, the bundles supplied
    pre_pc,           \* where the function is
    pre_next,         \* the bundle the for loop offers next
    pre_log,          \* each try_add_bundle call of the loop
    pre_result,       \* what the function returned
    \* the engine loop and the producers of one window's key
    redis_key,        \* the list stored under bundle_window:{w}
    loop_pc,          \* where the loop of main is
    bundles_json,     \* what the loop's lrange returned
    taken,            \* the entries handed to the auction so far
    pushes,           \* how many entries producers have pushed
    \* a set of pool calls started together
    todo              \* per task: the call it has still to enter

poolVars == <<bundles, pending_queue, max_pool_size, bundles_lock, queue_lock,
              event_channel, pc, arg, ret, pre, sent, unsent, undelivered>>

windowVars == <<clock, start_time, duration_ms, max_bundles_for_block,
                window_bundles, collected, closed_seen, w_last>>

assemblerVars == <<leader_pubkey, max_transactions_per_block,
                   max_compute_units_per_block, winning_bundles, template,
                   block, entry, verdict>>

streamVars == <<chan, sender_open, receiver_alive, c_pc, deadline, sent_log,
                stream_result, exit_reason>>

simulatorVars == <<sim_bundle, sim_result>>

heapVars == <<simulator, auction_heap, h_last>>

hashVars == <<sys_time, unique_counter, hash_bundles, assemblies>>

validatorVars == <<validators, accepted_blocks, rejected_blocks, submissions,
                   net, completed, signature_counter>>

pipelineVars == <<redis_bundles, runs, demo_block>>

mockVars == <<simulation_failures, sim_rejected>>

clientVars == <<should_fail, submitted_blocks, client_signatures, client_log>>

preVars == <<pre_input, pre_pc, pre_next, pre_log, pre_result>>

queueVars == <<redis_key, loop_pc, bundles_json, taken, pushes>>

callVars == <<todo>>

\* the parts added last
lateVars == <<mockVars, clientVars, preVars, queueVars, callVars>>

vars == <<poolVars, windowVars, streamVars, assemblerVars, simulatorVars,
          heapVars, hashVars, validatorVars, pipelineVars, lateVars>>

\* what the actions of one part leave alone
nonPoolVars ==
    <<windowVars, streamVars, assemblerVars, simulatorVars, heapVars,
      hashVars, validatorVars, pipelineVars, lateVars>>

nonWindowVars ==
    <<poolVars, streamVars, assemblerVars, simulatorVars, heapVars,
      hashVars, validatorVars, pipelineVars, lateVars>>

nonAssemblerVars ==
    <<poolVars, windowVars, streamVars, simulatorVars, heapVars,
      hashVars, validatorVars, pipelineVars, lateVars>>

nonSimulatorVars ==
    <<poolVars, windowVars, streamVars, assemblerVars, heapVars,
      hashVars, validatorVars, pipelineVars, lateVars>>

nonHeapVars ==
    <<poolVars, windowVars, streamVars, assemblerVars, simulatorVars,
      hashVars, validatorVars, pipelineVars, lateVars>>

nonHashVars ==
    <<poolVars, windowVars, streamVars, assemblerVars, simulatorVars, heapVars,
      validatorVars, pipelineVars, lateVars>>

nonValidatorVars ==
    <<poolVars, windowVars, streamVars, assemblerVars, simulatorVars, heapVars,
      hashVars, pipelineVars, lateVars>>

nonPipelineVars ==
    <<poolVars, windowVars, streamVars, assemblerVars, simulatorVars, heapVars,
      hashVars, validatorVars, lateVars>>

\* the collector works on the window
nonStreamVars ==
    <<poolVars, assemblerVars, simulatorVars, heapVars,
      hashVars, validatorVars, pipelineVars, lateVars>>

\* ------------------------------------------------------------ bundle.rs
\* Bundle::validate
Validate(b) ==
    IF b.ntx = 0 THEN "EmptyBundle"
    ELSE IF b.ntx > MaxBundleTx THEN "TooManyTransactions"
    ELSE "Ok"

\* ------------------------------------------------------------ std RwLock
\* a lock is held by one writer or by any number of readers
FreeLock == [writer |-> {}, readers |-> {}]

CanWrite(l) == l.writer = {} /\ l.readers = {}

CanReadMutIgnoresWriter(l) == TRUE

CanRead(l) == l.writer = {}

IsWriterOp(op) == op \in {"add_bundle", "remove_bundle", "clear"}

Acquire(l, t, op) ==
    IF IsWriterOp(op)
    THEN [l EXCEPT !.writer = {t}]
    ELSE [l EXCEPT !.readers = @ \cup {t}]

CanAcquire(l, op) == IF IsWriterOp(op) THEN CanWrite(l) ELSE CanRead(l)

ReleaseMutKeepsWriter(l, t) == [writer |-> l.writer, readers |-> l.readers \ {t}]

Release(l, t) == [writer |-> l.writer \ {t}, readers |-> l.readers \ {t}]

\* ------------------------------------------------- tokio broadcast channel
\* broadcast::channel(1000) followed by Sender::send: with no receiver the
\* value is handed back as an error; otherwise it is stored, and when every
\* slot is taken the oldest unread value is overwritten and the receiver will
\* be told how many it missed.  send never waits.
NewChannel == [subscribed |-> FALSE, buf |-> <<>>, missed |-> 0]

BroadcastSend(ch, e) ==
    IF ~ch.subscribed
    THEN [ok |-> FALSE, ch |-> ch]
    ELSE IF Len(ch.buf) >= EventCap
    THEN [ok |-> TRUE,
          ch |-> [ch EXCEPT !.buf = Append(Tail(@), e), !.missed = @ + 1]]
    ELSE [ok |-> TRUE, ch |-> [ch EXCEPT !.buf = Append(@, e)]]

\* --------------------------------------------------- transaction_pool.rs
NoArg == [op |-> "none"]

NoRet == [kind |-> "none"]

NoPre == [bundles |-> <<>>, queue |-> <<>>]

PoolOps == {"add_bundle", "remove_bundle", "clear", "get_pending_bundles",
            "get_stats", "get_bundle"}

QueryOps == {"add_bundle", "remove_bundle", "clear", "get_stats",
             "get_bundles_by_tip_range"}

MutatingOps == {"add_bundle", "remove_bundle", "clear"}

EmptyMap == <<>>

Keys(m) == DOMAIN m

MapInsert(m, k, v) == [x \in DOMAIN m \cup {k} |-> IF x = k THEN v ELSE m[x]]

MapRemove(m, k) == [x \in DOMAIN m \ {k} |-> m[x]]

\* add_bundle, lines 38-43: the capacity check, then the structural check
AdmissionMutFullOffByOne(size, max, b) ==
    IF size > max THEN "PoolFull"
    ELSE IF Validate(b) # "Ok" THEN "InvalidBundle"
    ELSE "Ok"

Admission(size, max, b) ==
    IF size >= max THEN "PoolFull"
    ELSE IF Validate(b) # "Ok" THEN "InvalidBundle"
    ELSE "Ok"

\* add_bundle, lines 50-52: the result of send is dropped
AddResultMutPropagates(sendres) ==
    IF sendres.ok THEN [kind |-> "Ok"] ELSE [kind |-> "SendError"]

AddResult(sendres) == [kind |-> "Ok"]

\* remove_bundle, line 66: queue.retain(|&x| x != *id)
Retain(q, id) == SelectSeq(q, LAMBDA x : x # id)

\* get_pending_bundles, lines 81-85: iter().take(count).filter_map(get).collect()
RECURSIVE FilterMapGet(_, _)
FilterMapGet(m, q) ==
    IF q = <<>> THEN <<>>
    ELSE IF Head(q) \in DOMAIN m
         THEN <<m[Head(q)]>> \o FilterMapGet(m, Tail(q))
         ELSE FilterMapGet(m, Tail(q))

GetPendingBundles(m, q, count) ==
    FilterMapGet(m, SubSeq(q, 1, Min(count, Len(q))))

\* get_stats, lines 102-116
RECURSIVE SumTips(_)
SumTips(m) ==
    IF DOMAIN m = {} THEN 0
    ELSE LET k == CHOOSE x \in DOMAIN m : TRUE
         IN m[k].tip + SumTips(MapRemove(m, k))

GetStats(m, q) ==
    LET total_bundles == Cardinality(DOMAIN m)
        total_tip_value == SumTips(m)
    IN [kind |-> "Stats",
        total_bundles |-> total_bundles,
        pending_count |-> Len(q),
        total_tip_value |-> total_tip_value,
        avg_tip |-> IF total_bundles > 0
                    THEN total_tip_value \div total_bundles ELSE 0]

\* TransactionPool::new, lines 22-31
PoolInit ==
    /\ bundles = EmptyMap
    /\ pending_queue = <<>>
    /\ max_pool_size \in 0..MaxPoolSize
    /\ bundles_lock = FreeLock
    /\ queue_lock = FreeLock
    /\ event_channel = NewChannel
    /\ pc = [t \in Tasks |-> "idle"]
    /\ arg = [t \in Tasks |-> NoArg]
    /\ ret = [t \in Tasks |-> NoRet]
    /\ pre = [t \in Tasks |-> NoPre]
    /\ sent = [t \in Tasks |-> <<>>]
    /\ unsent = <<>>
    /\ undelivered = <<>>

\* a task calls one operation of the pool; the call starts with
\* self.bundles.write() / .read() (lines 34, 56, 61, 78, 99, 124), on which
\* the caller waits until the lock can be taken
LockBundles(t, ops, cap) ==
    /\ pc[t] = "idle"
    /\ \E op \in ops :
        /\ op = "add_bundle" =>
               \/ Len(pending_queue) < cap
               \/ Cardinality(Keys(bundles)) >= max_pool_size
        /\ op \in {"add_bundle", "remove_bundle"} =>
               event_channel.missed < MaxMissed
        /\ CanAcquire(bundles_lock, op)
        /\ bundles_lock' = Acquire(bundles_lock, t, op)
        /\ arg' = [arg EXCEPT ![t] = [op |-> op]]
        /\ pc' = [pc EXCEPT ![t] =
                     IF op = "get_bundle" THEN "gb_l57"
                     ELSE IF op = "get_bundles_by_tip_range" THEN "tr_l91"
                     ELSE "lock_queue"]
    /\ UNCHANGED <<bundles, pending_queue, max_pool_size, queue_lock,
                   event_channel, ret, pre, sent, unsent, undelivered>>
    /\ UNCHANGED nonPoolVars

FirstStep(op) ==
    CASE op = "add_bundle" -> "add_l38"
      [] op = "remove_bundle" -> "rm_l64"
      [] op = "clear" -> "cl_l127"
      [] op = "get_pending_bundles" -> "gp_l81"
      [] op = "get_stats" -> "gs_l102"

\* self.pending_queue.write() / .read(): lines 35, 62, 79, 100, 125
LockQueue(t) ==
    /\ pc[t] = "lock_queue"
    /\ CanAcquire(queue_lock, arg[t].op)
    /\ queue_lock' = Acquire(queue_lock, t, arg[t].op)
    /\ pc' = [pc EXCEPT ![t] = FirstStep(arg[t].op)]
    /\ pre' = [pre EXCEPT ![t] = [bundles |-> bundles, queue |-> pending_queue]]
    /\ UNCHANGED <<bundles, pending_queue, max_pool_size, bundles_lock,
                   event_channel, arg, ret, sent, unsent, undelivered>>
    /\ UNCHANGED nonPoolVars

\* add_bundle with the structural check moved behind queue.push_back
AddCheckMutPushesFirst(t) ==
    /\ pc[t] = "add_l38"
    /\ \E b \in Bundle :
        LET adm == Admission(Cardinality(Keys(bundles)), max_pool_size, b)
        IN /\ arg' = [arg EXCEPT ![t] = [op |-> "add_bundle", bundle |-> b]]
           /\ IF adm = "Ok"
              THEN /\ pc' = [pc EXCEPT ![t] = "add_l46"]
                   /\ ret' = ret
                   /\ pending_queue' = pending_queue
              ELSE /\ pc' = [pc EXCEPT ![t] = "drop_queue"]
                   /\ ret' = [ret EXCEPT ![t] = [kind |-> adm]]
                   /\ pending_queue' = IF adm = "InvalidBundle"
                                       THEN Append(pending_queue, b.id)
                                       ELSE pending_queue
    /\ UNCHANGED <<bundles, max_pool_size, bundles_lock,
                   queue_lock, event_channel, pre, sent, unsent, undelivered>>
    /\ UNCHANGED nonPoolVars

\* add_bundle, lines 38-43, for the bundle b the caller passed
AddCheck(t) ==
    /\ pc[t] = "add_l38"
    /\ \E b \in Bundle :
        LET adm == Admission(Cardinality(Keys(bundles)), max_pool_size, b)
        IN /\ arg' = [arg EXCEPT ![t] = [op |-> "add_bundle", bundle |-> b]]
           /\ IF adm = "Ok"
              THEN /\ pc' = [pc EXCEPT ![t] = "add_l46"]
                   /\ ret' = ret
              ELSE /\ pc' = [pc EXCEPT ![t] = "drop_queue"]
                   /\ ret' = [ret EXCEPT ![t] = [kind |-> adm]]
    /\ UNCHANGED <<bundles, pending_queue, max_pool_size, bundles_lock,
                   queue_lock, event_channel, pre, sent, unsent, undelivered>>
    /\ UNCHANGED nonPoolVars

\* add_bundle, line 46: bundles.insert(bundle_id, bundle)
AddInsert(t) ==
    /\ pc[t] = "add_l46"
    /\ bundles' = MapInsert(bundles, arg[t].bundle.id, arg[t].bundle)
    /\ unsent' = Append(unsent, BundleAdded(arg[t].bundle.id))
    /\ undelivered' = IF event_channel.subscribed
                      THEN Append(undelivered, BundleAdded(arg[t].bundle.id))
                      ELSE undelivered
    /\ pc' = [pc EXCEPT ![t] = "add_l47"]
    /\ UNCHANGED <<pending_queue, max_pool_size, bundles_lock, queue_lock,
                   event_channel, arg, ret, pre, sent>>
    /\ UNCHANGED nonPoolVars

\* add_bundle, line 47: queue.push_back(bundle_id)
AddPush(t) ==
    /\ pc[t] = "add_l47"
    /\ pending_queue' = Append(pending_queue, arg[t].bundle.id)
    /\ pc' = [pc EXCEPT ![t] = "add_l50"]
    /\ UNCHANGED <<bundles, max_pool_size, bundles_lock, queue_lock,
                   event_channel, arg, ret, pre, sent, unsent, undelivered>>
    /\ UNCHANGED nonPoolVars

\* the bookkeeping of one send(e): e leaves unsent, and a subscriber whose
\* oldest unread event is overwritten will never receive that one
Published(t, e, sendres) ==
    /\ event_channel' = sendres.ch
    /\ sent' = [sent EXCEPT ![t] = Append(@, e)]
    /\ unsent' = IF unsent = <<>> THEN <<>> ELSE Tail(unsent)
    /\ undelivered' = IF sendres.ch.missed > event_channel.missed
                         /\ undelivered # <<>>
                      THEN Tail(undelivered) ELSE undelivered

\* add_bundle, lines 50-52: let _ = send(BundleAdded(id)); Ok(())
AddSend(t) ==
    /\ pc[t] = "add_l50"
    /\ LET e == BundleAdded(arg[t].bundle.id)
           r == BroadcastSend(event_channel, e)
       IN /\ Published(t, e, r)
          /\ ret' = [ret EXCEPT ![t] = AddResult(r)]
    /\ pc' = [pc EXCEPT ![t] = "drop_queue"]
    /\ UNCHANGED <<bundles, pending_queue, max_pool_size, bundles_lock,
                   queue_lock, arg, pre>>
    /\ UNCHANGED nonPoolVars

\* remove_bundle with the send moved out of the if let Some
RemoveFromMapMutAlwaysPublishes(t) ==
    /\ pc[t] = "rm_l64"
    /\ \E id \in Ids :
        /\ arg' = [arg EXCEPT ![t] = [op |-> "remove_bundle", id |-> id]]
        /\ IF id \in Keys(bundles)
           THEN /\ bundles' = MapRemove(bundles, id)
                /\ ret' = [ret EXCEPT ![t] =
                              [kind |-> "Some", bundle |-> bundles[id]]]
                /\ unsent' = Append(unsent, BundleRemoved(id))
                /\ undelivered' = IF event_channel.subscribed
                                  THEN Append(undelivered, BundleRemoved(id))
                                  ELSE undelivered
                /\ pc' = [pc EXCEPT ![t] = "rm_l66"]
           ELSE /\ ret' = [ret EXCEPT ![t] = [kind |-> "None"]]
                /\ pc' = [pc EXCEPT ![t] = "rm_l69"]
                /\ UNCHANGED <<bundles, unsent, undelivered>>
    /\ UNCHANGED <<pending_queue, max_pool_size, bundles_lock, queue_lock,
                   event_channel, pre, sent>>
    /\ UNCHANGED nonPoolVars

\* remove_bundle, line 64: bundles.remove(id), for the id the caller passed
RemoveFromMap(t) ==
    /\ pc[t] = "rm_l64"
    /\ \E id \in Ids :
        /\ arg' = [arg EXCEPT ![t] = [op |-> "remove_bundle", id |-> id]]
        /\ IF id \in Keys(bundles)
           THEN /\ bundles' = MapRemove(bundles, id)
                /\ ret' = [ret EXCEPT ![t] =
                              [kind |-> "Some", bundle |-> bundles[id]]]
                /\ unsent' = Append(unsent, BundleRemoved(id))
                /\ undelivered' = IF event_channel.subscribed
                                  THEN Append(undelivered, BundleRemoved(id))
                                  ELSE undelivered
                /\ pc' = [pc EXCEPT ![t] = "rm_l66"]
           ELSE /\ ret' = [ret EXCEPT ![t] = [kind |-> "None"]]
                /\ pc' = [pc EXCEPT ![t] = "drop_queue"]
                /\ UNCHANGED <<bundles, unsent, undelivered>>
    /\ UNCHANGED nonPoolVars
    /\ UNCHANGED <<pending_queue, max_pool_size, bundles_lock, queue_lock,
                   event_channel, pre, sent>>
    /\ UNCHANGED nonPoolVars

\* remove_bundle, line 66
RemoveRetain(t) ==
    /\ pc[t] = "rm_l66"
    /\ pending_queue' = Retain(pending_queue, arg[t].id)
    /\ pc' = [pc EXCEPT ![t] = "rm_l69"]
    /\ UNCHANGED <<bundles, max_pool_size, bundles_lock, queue_lock,
                   event_channel, arg, ret, pre, sent, unsent, undelivered>>
    /\ UNCHANGED nonPoolVars

\* remove_bundle, lines 69-71: let _ = send(BundleRemoved(id)); Some(bundle)
RemoveSend(t) ==
    /\ pc[t] = "rm_l69"
    /\ LET e == BundleRemoved(arg[t].id)
       IN Published(t, e, BroadcastSend(event_channel, e))
    /\ pc' = [pc EXCEPT ![t] = "drop_queue"]
    /\ UNCHANGED <<bundles, pending_queue, max_pool_size, bundles_lock,
                   queue_lock, arg, ret, pre>>
    /\ UNCHANGED nonPoolVars

\* clear, line 127: bundles.clear()
ClearBundles(t) ==
    /\ pc[t] = "cl_l127"
    /\ bundles' = EmptyMap
    /\ pc' = [pc EXCEPT ![t] = "cl_l128"]
    /\ UNCHANGED <<pending_queue, max_pool_size, bundles_lock, queue_lock,
                   event_channel, arg, ret, pre, sent, unsent, undelivered>>
    /\ UNCHANGED nonPoolVars

\* clear, line 128: queue.clear()
ClearQueue(t) ==
    /\ pc[t] = "cl_l128"
    /\ pending_queue' = <<>>
    /\ ret' = [ret EXCEPT ![t] = [kind |-> "Unit"]]
    /\ pc' = [pc EXCEPT ![t] = "drop_queue"]
    /\ UNCHANGED <<bundles, max_pool_size, bundles_lock, queue_lock,
                   event_channel, arg, pre, sent, unsent, undelivered>>
    /\ UNCHANGED nonPoolVars

\* get_pending_bundles, lines 81-85
GetPending(t) ==
    /\ pc[t] = "gp_l81"
    /\ \E n \in 0..MaxCount :
        /\ arg' = [arg EXCEPT ![t] = [op |-> "get_pending_bundles", count |-> n]]
        /\ ret' = [ret EXCEPT ![t] =
                      [kind |-> "List",
                       items |-> GetPendingBundles(bundles, pending_queue, n)]]
    /\ pc' = [pc EXCEPT ![t] = "drop_queue"]
    /\ UNCHANGED <<bundles, pending_queue, max_pool_size, bundles_lock,
                   queue_lock, event_channel, pre, sent, unsent, undelivered>>
    /\ UNCHANGED nonPoolVars

\* get_stats, lines 102-116
Stats(t) ==
    /\ pc[t] = "gs_l102"
    /\ ret' = [ret EXCEPT ![t] = GetStats(bundles, pending_queue)]
    /\ pc' = [pc EXCEPT ![t] = "drop_queue"]
    /\ UNCHANGED <<bundles, pending_queue, max_pool_size, bundles_lock,
                   queue_lock, event_channel, arg, pre, sent, unsent,
                   undelivered>>
    /\ UNCHANGED nonPoolVars

\* get_bundle, line 57: bundles.get(id).cloned()
GetBundle(t) ==
    /\ pc[t] = "gb_l57"
    /\ \E id \in Ids :
        /\ arg' = [arg EXCEPT ![t] = [op |-> "get_bundle", id |-> id]]
        /\ ret' = [ret EXCEPT ![t] =
                      IF id \in Keys(bundles)
                      THEN [kind |-> "Some", bundle |-> bundles[id]]
                      ELSE [kind |-> "None"]]
    /\ pc' = [pc EXCEPT ![t] = "drop_bundles"]
    /\ UNCHANGED <<bundles, pending_queue, max_pool_size, bundles_lock,
                   queue_lock, event_channel, pre, sent, unsent, undelivered>>
    /\ UNCHANGED nonPoolVars

\* the ends of the tip ranges asked for: each tip held, as the lower and as
\* the upper end
RangeEnds == Tips

TipRangeMutExclusiveMax(m, min_tip, max_tip) ==
    {m[k] : k \in {x \in DOMAIN m : m[x].tip >= min_tip /\ m[x].tip < max_tip}}

\* get_bundles_by_tip_range, lines 91-95: values().filter(..).cloned().collect();
\* the Vec comes in the iteration order of the HashMap, which is left open:
\* the result is kept as the set of its items, each key giving one
TipRange(m, min_tip, max_tip) ==
    {m[k] : k \in {x \in DOMAIN m : m[x].tip >= min_tip /\ m[x].tip <= max_tip}}

\* get_bundles_by_tip_range, lines 88-96: only the map is locked
GetBundlesByTipRange(t) ==
    /\ pc[t] = "tr_l91"
    /\ \E lo \in RangeEnds, hi \in RangeEnds :
        /\ arg' = [arg EXCEPT ![t] = [op |-> "get_bundles_by_tip_range",
                                      min_tip |-> lo, max_tip |-> hi]]
        /\ ret' = [ret EXCEPT ![t] =
                      [kind |-> "Set", items |-> TipRange(bundles, lo, hi)]]
    /\ pc' = [pc EXCEPT ![t] = "drop_bundles"]
    /\ UNCHANGED <<bundles, pending_queue, max_pool_size, bundles_lock,
                   queue_lock, event_channel, pre, sent, unsent, undelivered>>
    /\ UNCHANGED nonPoolVars

\* the function returns (pc "drop_queue" or, for get_bundle, "drop_bundles",
\* with the result in ret): its guards are dropped in reverse order of
\* declaration, the queue guard first; the record of the call ends there
DropQueueGuard(t) ==
    /\ pc[t] = "drop_queue"
    /\ queue_lock' = Release(queue_lock, t)
    /\ pc' = [pc EXCEPT ![t] = "drop_bundles"]
    /\ arg' = [arg EXCEPT ![t] = NoArg]
    /\ ret' = [ret EXCEPT ![t] = NoRet]
    /\ pre' = [pre EXCEPT ![t] = NoPre]
    /\ sent' = [sent EXCEPT ![t] = <<>>]
    /\ UNCHANGED <<bundles, pending_queue, max_pool_size, bundles_lock,
                   event_channel, unsent, undelivered>>
    /\ UNCHANGED nonPoolVars

DropBundlesGuard(t) ==
    /\ pc[t] = "drop_bundles"
    /\ bundles_lock' = Release(bundles_lock, t)
    /\ pc' = [pc EXCEPT ![t] = "idle"]
    /\ arg' = [arg EXCEPT ![t] = NoArg]
    /\ ret' = [ret EXCEPT ![t] = NoRet]
    /\ pre' = [pre EXCEPT ![t] = NoPre]
    /\ sent' = [sent EXCEPT ![t] = <<>>]
    /\ UNCHANGED <<bundles, pending_queue, max_pool_size, queue_lock,
                   event_channel, unsent, undelivered>>
    /\ UNCHANGED nonPoolVars

\* subscribe_events, lines 119-121: takes no lock of the pool
Subscribe ==
    /\ ~event_channel.subscribed
    /\ event_channel' = [subscribed |-> TRUE, buf |-> <<>>, missed |-> 0]
    /\ undelivered' = unsent
    /\ UNCHANGED <<bundles, pending_queue, max_pool_size, bundles_lock,
                   queue_lock, pc, arg, ret, pre, sent, unsent>>
    /\ UNCHANGED nonPoolVars

\* Receiver::recv: Lagged(n) first when events were overwritten, else the
\* oldest unread event; it waits while there is none
Recv ==
    /\ event_channel.subscribed
    /\ IF event_channel.missed > 0
       THEN /\ event_channel' = [event_channel EXCEPT !.missed = 0]
            /\ undelivered' = undelivered
       ELSE /\ event_channel.buf # <<>>
            /\ event_channel' = [event_channel EXCEPT !.buf = Tail(@)]
            /\ undelivered' = IF undelivered = <<>> THEN <<>>
                              ELSE Tail(undelivered)
    /\ UNCHANGED <<bundles, pending_queue, max_pool_size, bundles_lock,
                   queue_lock, pc, arg, ret, pre, sent, unsent>>
    /\ UNCHANGED nonPoolVars

\* the receiver is dropped
DropReceiver ==
    /\ event_channel.subscribed
    /\ event_channel' = NewChannel
    /\ undelivered' = <<>>
    /\ UNCHANGED <<bundles, pending_queue, max_pool_size, bundles_lock,
                   queue_lock, pc, arg, ret, pre, sent, unsent>>
    /\ UNCHANGED nonPoolVars

\* ------------------------------------------------- auction.rs, AuctionWindow
WindowIds == 1..MaxWindowBundles

WindowTips == 1..MaxWindowTip

\* the bundles a window is offered.  Bundle::new gives each a fresh v4 Uuid
\* (bundle.rs:18) and the window takes them by value, so the bundles one
\* window holds have different ids
WindowBundle == [id : WindowIds, tip : WindowTips, ntx : {1}]

NoCall == [op |-> "none"]

\* start_time.elapsed().as_millis(): whole milliseconds
ElapsedMillis(now, start) == (now - start) \div TicksPerMs

IsWindowOpenMutAlways(now, start, duration) == TRUE

\* is_window_open, lines 161-163
IsWindowOpenMutInclusive(now, start, duration) ==
    ElapsedMillis(now, start) <= duration

IsWindowOpen(now, start, duration) ==
    ElapsedMillis(now, start) < duration

\* the comparator of rank_bundles_by_priority, lines 188-193:
\* b.tip.cmp(a.tip), then a.id.cmp(b.id)
CmpMutTipAscending(a, b) ==
    IF a.tip < b.tip THEN "Less"
    ELSE IF a.tip > b.tip THEN "Greater"
    ELSE IF a.id < b.id THEN "Less"
    ELSE IF a.id > b.id THEN "Greater"
    ELSE "Equal"

CmpMutNoTieBreak(a, b) ==
    IF b.tip < a.tip THEN "Less"
    ELSE IF b.tip > a.tip THEN "Greater"
    ELSE "Equal"

Cmp(a, b) ==
    IF b.tip < a.tip THEN "Less"
    ELSE IF b.tip > a.tip THEN "Greater"
    ELSE IF a.id < b.id THEN "Less"
    ELSE IF a.id > b.id THEN "Greater"
    ELSE "Equal"

\* Vec::sort_by is a stable sort: x goes behind every element that does not
\* compare Greater than it
RECURSIVE InsertStable(_, _)
InsertStable(s, x) ==
    IF s = <<>> THEN <<x>>
    ELSE IF Cmp(Head(s), x) = "Greater" THEN <<x>> \o s
    ELSE <<Head(s)>> \o InsertStable(Tail(s), x)

RECURSIVE SortBy(_)
SortBy(s) ==
    IF s = <<>> THEN <<>>
    ELSE InsertStable(SortBy(SubSeq(s, 1, Len(s) - 1)), s[Len(s)])

\* into_iter().take(n).collect(), lines 201-204
TakeMutOneMore(s, n) == SubSeq(s, 1, Min(n + 1, Len(s)))

Take(s, n) == SubSeq(s, 1, Min(n, Len(s)))

\* AuctionWindow::new, lines 132-140
WindowInit ==
    /\ clock = 0
    /\ start_time = 0
    /\ duration_ms \in 0..MaxDuration
    /\ max_bundles_for_block \in 0..MaxBundlesForBlock
    /\ window_bundles = <<>>
    /\ collected = <<>>
    /\ closed_seen = FALSE
    /\ w_last = NoCall

\* time passes; w_last describes a call only at the instant it returns
Tick ==
    /\ clock < (MaxDuration + 1) * TicksPerMs
    /\ clock' = clock + 1
    /\ w_last' = NoCall
    /\ UNCHANGED <<start_time, duration_ms, max_bundles_for_block,
                   window_bundles, collected, closed_seen>>
    /\ UNCHANGED nonWindowVars

\* try_add_bundle, lines 143-158
TryAddBundle ==
    \E b \in WindowBundle :
        LET open == IsWindowOpen(clock, start_time, duration_ms)
        IN /\ b.id \notin {collected[i].id : i \in 1..Len(collected)}
           /\ window_bundles' = IF open THEN Append(window_bundles, b)
                                ELSE window_bundles
           /\ collected' = IF open THEN Append(collected, b) ELSE collected
           /\ closed_seen' = (closed_seen \/ ~open)
           /\ w_last' = [op |-> "try_add_bundle", bundle |-> b, at |-> clock,
                         before |-> window_bundles,
                         closed_before |-> closed_seen,
                         result |-> [kind |-> "Ok", value |-> open]]
           /\ UNCHANGED <<clock, start_time, duration_ms,
                          max_bundles_for_block>>
           /\ UNCHANGED nonWindowVars

\* is_window_open called by the owner of the window
CheckWindowOpen ==
    LET open == IsWindowOpen(clock, start_time, duration_ms)
    IN /\ closed_seen' = (closed_seen \/ ~open)
       /\ w_last' = [op |-> "is_window_open", at |-> clock,
                     closed_before |-> closed_seen, result |-> open]
       /\ UNCHANGED <<clock, start_time, duration_ms, max_bundles_for_block,
                      window_bundles, collected>>
       /\ UNCHANGED nonWindowVars

\* rank_bundles_by_priority, lines 180-196: sorts self.bundles in place and
\* returns a clone
RankBundlesByPriority ==
    /\ window_bundles' = SortBy(window_bundles)
    /\ w_last' = [op |-> "rank_bundles_by_priority",
                  result |-> SortBy(window_bundles)]
    /\ UNCHANGED <<clock, start_time, duration_ms, max_bundles_for_block,
                   collected, closed_seen>>
    /\ UNCHANGED nonWindowVars

\* select_and_log_winners, lines 199-208
SelectAndLogWinners ==
    LET ranked_bundles == SortBy(window_bundles)
    IN /\ window_bundles' = ranked_bundles
       /\ w_last' = [op |-> "select_and_log_winners",
                     result |-> Take(ranked_bundles, max_bundles_for_block)]
       /\ UNCHANGED <<clock, start_time, duration_ms, max_bundles_for_block,
                      collected, closed_seen>>
       /\ UNCHANGED nonWindowVars

\* ------------------------------------------------ simulate_auction_window
\* The collector of auction.rs:295-346 and the task holding the
\* mpsc::Sender<Bundle>.  The 200 ms of AUCTION_DURATION_MS are duration_ms.
StreamTips == {1, 2}

\* the k-th bundle sent carries a fresh id (Bundle::new)
StreamBundle(k, tip) == [id |-> k, tip |-> tip, ntx |-> 1]

NoStreamResult == [kind |-> "none"]

\* wait_for_window_close, lines 166-176, polled at now: the instant its sleep
\* ends, now itself when the window is over already
SleepDeadline(now, start, duration) ==
    LET elapsed == ElapsedMillis(now, start) IN
    IF elapsed < duration
    THEN now + (duration - elapsed) * TicksPerMs
    ELSE now

TimerReadyMutNever(now, dl) == FALSE

\* tokio's sleep is over
TimerReady(now, dl) == now >= dl

StreamInit ==
    /\ chan = <<>>
    /\ sender_open = TRUE
    /\ receiver_alive = TRUE
    /\ c_pc = "while"
    /\ deadline = 0
    /\ sent_log = <<>>
    /\ stream_result = NoStreamResult
    /\ exit_reason = "none"

\* mpsc::Sender::send: Err(SendError) once the receiver is dropped
SendResult(alive) == IF alive THEN "Ok" ELSE "Err"

\* sender.send(bundle).await in the sending task (auction_demo.rs:211); the
\* call returns once the channel has room or the receiver is gone
StreamSend ==
    /\ sender_open
    /\ Len(sent_log) < MaxSends
    /\ receiver_alive => Len(chan) < ChanCap
    /\ \E tip \in StreamTips :
        LET b == StreamBundle(Len(sent_log) + 1, tip) IN
        /\ chan' = IF receiver_alive THEN Append(chan, b) ELSE chan
        /\ sent_log' = Append(sent_log,
               [bundle |-> b,
                late |-> ~IsWindowOpen(clock, start_time, duration_ms),
                result |-> SendResult(receiver_alive)])
    /\ UNCHANGED <<sender_open, receiver_alive, c_pc, deadline, stream_result,
                   exit_reason>>
    /\ UNCHANGED windowVars
    /\ UNCHANGED nonStreamVars

\* the Sender is dropped
DropSender ==
    /\ sender_open
    /\ sender_open' = FALSE
    /\ UNCHANGED <<chan, receiver_alive, c_pc, deadline, sent_log,
                   stream_result, exit_reason>>
    /\ UNCHANGED windowVars
    /\ UNCHANGED nonStreamVars

\* line 311: while auction_window.is_window_open()
WhileWindowOpen ==
    /\ c_pc = "while"
    /\ IF IsWindowOpen(clock, start_time, duration_ms)
       THEN c_pc' = "poll" /\ UNCHANGED exit_reason
       ELSE c_pc' = "select_winners" /\ exit_reason' = "window closed"
    /\ UNCHANGED <<chan, sender_open, receiver_alive, deadline, sent_log,
                   stream_result>>
    /\ UNCHANGED windowVars
    /\ UNCHANGED nonStreamVars

\* line 312: select! polls recv() and a new wait_for_window_close()
PollSelect ==
    /\ c_pc = "poll"
    /\ deadline' = SleepDeadline(clock, start_time, duration_ms)
    /\ c_pc' = "select"
    /\ UNCHANGED <<chan, sender_open, receiver_alive, sent_log, stream_result,
                   exit_reason>>
    /\ UNCHANGED windowVars
    /\ UNCHANGED nonStreamVars

\* lines 314-320: recv() gave Some(bundle); try_add_bundle (lines 143-158)
RecvSome ==
    /\ c_pc = "select"
    /\ chan # <<>>
    /\ LET b == Head(chan)
           open == IsWindowOpen(clock, start_time, duration_ms)
       IN /\ window_bundles' = IF open THEN Append(window_bundles, b)
                               ELSE window_bundles
          /\ collected' = IF open THEN Append(collected, b) ELSE collected
          /\ closed_seen' = (closed_seen \/ ~open)
    /\ chan' = Tail(chan)
    /\ deadline' = 0
    /\ c_pc' = "while"
    /\ UNCHANGED <<clock, start_time, duration_ms, max_bundles_for_block,
                   w_last>>
    /\ UNCHANGED <<sender_open, receiver_alive, sent_log,
                   stream_result, exit_reason>>
    /\ UNCHANGED nonStreamVars

\* lines 321-324: recv() gave None, the channel is closed and empty
RecvNone ==
    /\ c_pc = "select"
    /\ chan = <<>>
    /\ ~sender_open
    /\ deadline' = 0
    /\ c_pc' = "select_winners"
    /\ exit_reason' = "receiver closed"
    /\ UNCHANGED <<chan, sender_open, receiver_alive, sent_log,
                   stream_result>>
    /\ UNCHANGED windowVars
    /\ UNCHANGED nonStreamVars

\* lines 328-331: wait_for_window_close() completed
WindowTimeout ==
    /\ c_pc = "select"
    /\ TimerReady(clock, deadline)
    /\ deadline' = 0
    /\ c_pc' = "select_winners"
    /\ exit_reason' = "timeout"
    /\ UNCHANGED <<chan, sender_open, receiver_alive, sent_log,
                   stream_result>>
    /\ UNCHANGED windowVars
    /\ UNCHANGED nonStreamVars

\* lines 336-345: select_and_log_winners, Ok(winners); the receiver is
\* dropped with what it still holds
ReturnWinners ==
    /\ c_pc = "select_winners"
    /\ LET ranked_bundles == SortBy(window_bundles) IN
       /\ window_bundles' = ranked_bundles
       /\ stream_result' = [kind |-> "Ok",
                            winners |-> Take(ranked_bundles, max_bundles_for_block),
                            collected |-> window_bundles,
                            open_at_rank |->
                                IsWindowOpen(clock, start_time, duration_ms)]
    /\ receiver_alive' = FALSE
    /\ chan' = <<>>
    /\ c_pc' = "done"
    /\ UNCHANGED <<clock, start_time, duration_ms, max_bundles_for_block,
                   collected, closed_seen, w_last>>
    /\ UNCHANGED <<sender_open, deadline, sent_log, exit_reason>>
    /\ UNCHANGED nonStreamVars

\* the steps of the collector task
CollectorStep ==
    \/ WhileWindowOpen
    \/ PollSelect
    \/ RecvSome
    \/ RecvNone
    \/ WindowTimeout
    \/ ReturnWinners

\* =========================================================================
\* Part III  BlockAssembler and the free assemble_block (block_assembler.rs)
\* =========================================================================
\* A transaction is a value compared with == (Vec::contains, line 145); two
\* bundles may carry the same transaction.  A bundle of this part is the
\* record [id, tip, txs].
TxValues == {1, 2}

BundleTxs == {<<>>} \cup {<<a>> : a \in TxValues}
                    \cup {<<a, b>> : a \in TxValues, b \in TxValues}

BlockTips == {1, 2}

BlockBundle == [id : 1..MaxWinners, tip : BlockTips, txs : BundleTxs]

\* the winners handed to the assembler: the k-th bundle carries id k
WinnerSeqs ==
    UNION {{w \in [1..n -> BlockBundle] : \A i \in 1..n : w[i].id = i}
           : n \in 0..MaxWinners}

TxLimits == 0..MaxTxLimit

ComputeLimits == {k * ComputeUnitsPerTx : k \in 0..MaxTxLimit}

Slots == {1, 2}

Hashes == {"h1", "h2"}

Pubkeys == {"leader", "other"}

DefaultHash == "Hash::default"

DefaultPubkey == "Pubkey::default"

NoTemplate == [kind |-> "none"]

NoBlock == [kind |-> "none"]

NoEntry == [name |-> "none", args |-> <<>>]

RECURSIVE Concat(_)
\* the transactions of a sequence of bundles, one bundle after the other
Concat(bs) ==
    IF bs = <<>> THEN <<>> ELSE Concat(SubSeq(bs, 1, Len(bs) - 1)) \o bs[Len(bs)].txs

RECURSIVE SumOfTips(_)
SumOfTips(bs) ==
    IF bs = <<>> THEN 0 ELSE SumOfTips(SubSeq(bs, 1, Len(bs) - 1)) + bs[Len(bs)].tip

\* BlockAssembler::create_block_template
CreateBlockTemplateOp(slot, parent_hash) ==
    [kind |-> "template", slot |-> slot, parent_hash |-> parent_hash,
     leader_pubkey |-> leader_pubkey,
     max_transactions |-> max_transactions_per_block,
     max_compute_units |-> max_compute_units_per_block]

\* BlockAssembler::estimate_bundle_compute_units
EstimateBundleComputeUnits(b) == Len(b.txs) * ComputeUnitsPerTx

\* the locals of assemble_block before the first bundle
EmptyAcc ==
    [all_transactions |-> <<>>, total_tips |-> 0, total_compute_units |-> 0,
     included_bundles |-> <<>>]

LoopBodyMutTipsOfSkipped(tpl, acc, b) ==
    IF \/ Len(acc.all_transactions) + Len(b.txs) > tpl.max_transactions
       \/ acc.total_compute_units + EstimateBundleComputeUnits(b)
              > tpl.max_compute_units
    THEN [acc EXCEPT !.total_tips = @ + b.tip]
    ELSE [acc EXCEPT !.all_transactions = @ \o b.txs,
                     !.total_tips = @ + b.tip,
                     !.total_compute_units = @ + EstimateBundleComputeUnits(b),
                     !.included_bundles = Append(@, b)]

LoopBodyMutIgnoresComputeLimit(tpl, acc, b) ==
    IF Len(acc.all_transactions) + Len(b.txs) > tpl.max_transactions
    THEN acc
    ELSE [acc EXCEPT !.all_transactions = @ \o b.txs,
                     !.total_tips = @ + b.tip,
                     !.total_compute_units = @ + EstimateBundleComputeUnits(b),
                     !.included_bundles = Append(@, b)]

LoopBodyMutReversesBundle(tpl, acc, b) ==
    IF \/ Len(acc.all_transactions) + Len(b.txs) > tpl.max_transactions
       \/ acc.total_compute_units + EstimateBundleComputeUnits(b)
              > tpl.max_compute_units
    THEN acc
    ELSE [acc EXCEPT !.all_transactions =
                         @ \o [i \in 1..Len(b.txs) |-> b.txs[Len(b.txs) + 1 - i]],
                     !.total_tips = @ + b.tip,
                     !.total_compute_units = @ + EstimateBundleComputeUnits(b),
                     !.included_bundles = Append(@, b)]

\* one turn of the loop of assemble_block (lines 80-102)
LoopBody(tpl, acc, b) ==
    IF Len(acc.all_transactions) + Len(b.txs) > tpl.max_transactions
    THEN acc                                                     \* continue
    ELSE IF acc.total_compute_units + EstimateBundleComputeUnits(b)
                > tpl.max_compute_units
    THEN acc                                                     \* continue
    ELSE [acc EXCEPT !.all_transactions = @ \o b.txs,
                     !.total_tips = @ + b.tip,
                     !.total_compute_units = @ + EstimateBundleComputeUnits(b),
                     !.included_bundles = Append(@, b)]

RECURSIVE LoopMutBreaks(_, _)
LoopMutBreaks(tpl, ws) ==
    IF ws = <<>> THEN EmptyAcc
    ELSE LET prev == LoopMutBreaks(tpl, SubSeq(ws, 1, Len(ws) - 1)) IN
         IF Len(prev.included_bundles) < Len(ws) - 1
         THEN prev                                               \* break
         ELSE LoopBody(tpl, prev, ws[Len(ws)])

RECURSIVE Loop(_, _)
\* the loop of assemble_block over winning_bundles
Loop(tpl, ws) ==
    IF ws = <<>> THEN EmptyAcc
    ELSE LoopBody(tpl, Loop(tpl, SubSeq(ws, 1, Len(ws) - 1)), ws[Len(ws)])

TotalFeesMutSumsTips(acc) == acc.total_tips

\* line 105
TotalFees(acc) == Len(acc.all_transactions) * LamportsPerTransaction

\* BlockAssembler::assemble_block; always Ok(block)
AssembleBlockOp(tpl, ws) ==
    LET acc == Loop(tpl, ws) IN
    [kind |-> "Ok",
     slot |-> tpl.slot, parent_hash |-> tpl.parent_hash,
     transactions |-> acc.all_transactions, bundles |-> acc.included_bundles,
     leader_pubkey |-> tpl.leader_pubkey,
     total_fees |-> TotalFees(acc), total_tips |-> acc.total_tips]

\* BlockAssembler::validate_block
ValidateBlockOp(b) ==
    IF Len(b.transactions) > max_transactions_per_block
    THEN "TooManyTransactions"
    ELSE IF Len(b.transactions) * ComputeUnitsPerTx > max_compute_units_per_block
    THEN "TooManyComputeUnits"
    ELSE IF \E i \in 1..Len(b.bundles) :
               \E j \in 1..Len(b.bundles[i].txs) :
                   b.bundles[i].txs[j] \notin Range(b.transactions)
    THEN "MissingBundleTransaction"
    ELSE "Ok"

FreeAssembleMutDropsLast(ws) ==
    LET kept == SubSeq(ws, 1, Len(ws) - 1) IN
    [kind |-> "Ok", slot |-> 0, parent_hash |-> DefaultHash,
     transactions |-> Concat(kept), bundles |-> kept,
     leader_pubkey |-> DefaultPubkey,
     total_fees |-> SumOfTips(kept), total_tips |-> SumOfTips(kept)]

\* the free function assemble_block (lines 210-279): no limit is applied and
\* total_fees accumulates the tips (line 232)
FreeAssemble(ws) ==
    [kind |-> "Ok", slot |-> 0, parent_hash |-> DefaultHash,
     transactions |-> Concat(ws), bundles |-> ws,
     leader_pubkey |-> DefaultPubkey,
     total_fees |-> SumOfTips(ws), total_tips |-> SumOfTips(ws)]

\* assemble_block_with_params (lines 308-329)
FreeAssembleWithParams(ws, slot, parent_hash, leader) ==
    [FreeAssemble(ws) EXCEPT !.slot = slot, !.parent_hash = parent_hash,
                             !.leader_pubkey = leader]

AssemblerInit ==
    /\ leader_pubkey = "leader"
    /\ max_transactions_per_block \in TxLimits
    /\ max_compute_units_per_block \in ComputeLimits
    /\ winning_bundles \in WinnerSeqs
    /\ template = NoTemplate
    /\ block = NoBlock
    /\ entry = NoEntry
    /\ verdict = "none"

\* assembler.create_block_template(slot, parent_hash)
CreateBlockTemplate ==
    /\ template = NoTemplate
    /\ block = NoBlock
    /\ \E slot \in Slots : template' = CreateBlockTemplateOp(slot, "h1")
    /\ UNCHANGED <<leader_pubkey, max_transactions_per_block,
                   max_compute_units_per_block, winning_bundles, block, entry,
                   verdict>>
    /\ UNCHANGED nonAssemblerVars

\* a caller fills in the public fields of BlockTemplate itself (lines 29-35)
BuildTemplate ==
    /\ template = NoTemplate
    /\ block = NoBlock
    /\ \E mt \in TxLimits, mc \in ComputeLimits :
           template' = [kind |-> "template", slot |-> 1, parent_hash |-> "h1",
                        leader_pubkey |-> "other",
                        max_transactions |-> mt, max_compute_units |-> mc]
    /\ UNCHANGED <<leader_pubkey, max_transactions_per_block,
                   max_compute_units_per_block, winning_bundles, block, entry,
                   verdict>>
    /\ UNCHANGED nonAssemblerVars

\* assembler.assemble_block(template, winning_bundles).await
AssembleBlock ==
    /\ template # NoTemplate
    /\ block = NoBlock
    /\ block' = AssembleBlockOp(template, winning_bundles)
    /\ entry' = [name |-> "BlockAssembler::assemble_block", args |-> <<>>]
    /\ UNCHANGED <<leader_pubkey, max_transactions_per_block,
                   max_compute_units_per_block, winning_bundles, template,
                   verdict>>
    /\ UNCHANGED nonAssemblerVars

\* assemble_block(winning_bundles)
AssembleBlockFree ==
    /\ template = NoTemplate
    /\ block = NoBlock
    /\ block' = FreeAssemble(winning_bundles)
    /\ entry' = [name |-> "assemble_block", args |-> <<>>]
    /\ UNCHANGED <<leader_pubkey, max_transactions_per_block,
                   max_compute_units_per_block, winning_bundles, template,
                   verdict>>
    /\ UNCHANGED nonAssemblerVars

\* assemble_block_with_params(winning_bundles, slot, parent_hash, leader_pubkey)
AssembleBlockWithParams ==
    /\ template = NoTemplate
    /\ block = NoBlock
    /\ \E slot \in Slots, h \in Hashes, l \in Pubkeys :
           /\ block' = FreeAssembleWithParams(winning_bundles, slot, h, l)
           /\ entry' = [name |-> "assemble_block_with_params",
                        args |-> <<slot, h, l>>]
    /\ UNCHANGED <<leader_pubkey, max_transactions_per_block,
                   max_compute_units_per_block, winning_bundles, template,
                   verdict>>
    /\ UNCHANGED nonAssemblerVars

\* assembler.validate_block(&block)
ValidateBlock ==
    /\ block # NoBlock
    /\ verdict = "none"
    /\ verdict' = ValidateBlockOp(block)
    /\ UNCHANGED <<leader_pubkey, max_transactions_per_block,
                   max_compute_units_per_block, winning_bundles, template,
                   block, entry>>
    /\ UNCHANGED nonAssemblerVars

\* =========================================================================
\* Part IV  TransactionSimulator (simulator.rs) and the heap-based
\*          BundleAuction (auction.rs)
\* =========================================================================
\* The RPC client is a trait object (simulator.rs:29-33): for each
\* transaction it answers Ok(SimulationResult) or Err.  A transaction of this
\* part is the answer the client gives for it; a bundle is [id, tip, txs].
ErrorTexts == {"Instruction failed", "Account not found"}

RpcErrorTexts == {"rpc timeout"}

NoText == "None"

SimSuccess == [kind |-> "Ok", success |-> TRUE, error |-> NoText]

SimFailure(e) == [kind |-> "Ok", success |-> FALSE, error |-> e]

RpcError(e) == [kind |-> "Err", text |-> e]

SimAnswers ==
    {SimSuccess} \cup {SimFailure(e) : e \in ErrorTexts \cup {NoText}}
                 \cup {RpcError(e) : e \in RpcErrorTexts}

TxSeqs(n) == UNION {[1..k -> SimAnswers] : k \in 0..n}

SimBundle == [id : {1}, tip : {1}, txs : TxSeqs(MaxBundleTx + 1)]

NoResult == [kind |-> "none"]

RECURSIVE SimulateFrom(_, _, _)
\* the loop of simulate_bundle from transaction i on: `?` returns the first
\* Err of the client; calls counts the simulate_transaction calls made
SimulateFrom(txs, i, results) ==
    IF i > Len(txs) THEN [kind |-> "Ok", results |-> results, calls |-> Len(txs)]
    ELSE IF txs[i].kind = "Err"
    THEN [kind |-> "Err", text |-> txs[i].text, calls |-> i]
    ELSE SimulateFrom(txs, i + 1, Append(results, txs[i]))

\* TransactionSimulator::simulate_bundle
SimulateBundle(b) == SimulateFrom(b.txs, 1, <<>>)

\* result.error.unwrap_or_else(|| "Unknown simulation error")
ErrorTextOf(result) ==
    IF result.error = NoText THEN "Unknown simulation error" ELSE result.error

\* TransactionSimulator::validate_bundle
ValidateBundle(b) ==
    LET structural == Validate([ntx |-> Len(b.txs)]) IN
    IF structural # "Ok"
    THEN [kind |-> "Err", error |-> structural, detail |-> "", calls |-> 0]
    ELSE LET sim == SimulateBundle(b) IN
         IF sim.kind = "Err"
         THEN [kind |-> "Err", error |-> "SimulationFailed",
               detail |-> sim.text, calls |-> sim.calls]
         ELSE LET failed == {i \in 1..Len(sim.results) : ~sim.results[i].success} IN
              IF failed # {}
              THEN LET first == CHOOSE i \in failed : \A j \in failed : i <= j IN
                   [kind |-> "Err", error |-> "SimulationFailed",
                    detail |-> ErrorTextOf(sim.results[first]),
                    calls |-> sim.calls]
              ELSE [kind |-> "Ok", value |-> TRUE, calls |-> sim.calls]

SimulatorInit ==
    /\ sim_bundle \in SimBundle
    /\ sim_result = NoResult

\* simulator.validate_bundle(&bundle).await
CallValidateBundle ==
    /\ sim_result = NoResult
    /\ sim_result' = ValidateBundle(sim_bundle)
    /\ UNCHANGED sim_bundle
    /\ UNCHANGED nonSimulatorVars

\* ---------------------------------------------------- BundleAuction (heap)
HeapTxs ==
    {<<>>, <<SimSuccess>>, <<SimFailure("Instruction failed")>>,
     <<SimSuccess, RpcError("rpc timeout")>>,
     [i \in 1..(MaxBundleTx + 1) |-> SimSuccess]}

HeapIds == {1, 2}

HeapBundle == [id : HeapIds, tip : 1..MaxHeapTip, txs : HeapTxs]

NoHeapCall == [op |-> "none"]

\* BinaryHeap::push: the heap is kept as the sequence of its entries, its
\* internal order left open
HeapPush(h, b) == Append(h, [bundle |-> b, priority_score |-> b.tip])

RemoveAt(h, i) == SubSeq(h, 1, i - 1) \o SubSeq(h, i + 1, Len(h))

GreatestMutAny(h) == 1..Len(h)

\* Ord for AuctionBundle compares priority_score only (lines 36-40): pop may
\* return any entry with the greatest score
Greatest(h) ==
    {i \in 1..Len(h) : \A j \in 1..Len(h) : h[j].priority_score <= h[i].priority_score}

RECURSIVE Pops(_, _)
\* the loop of select_winning_bundles: every (winners, heap left) it can end with
Pops(h, k) ==
    IF k = 0 \/ h = <<>> THEN {[winners |-> <<>>, rest |-> h]}
    ELSE UNION {{[winners |-> <<h[i].bundle>> \o r.winners, rest |-> r.rest]
                 : r \in Pops(RemoveAt(h, i), k - 1)} : i \in Greatest(h)}

HeapAddResultMutPushesFirst(h, sim, b) ==
    IF sim
    THEN LET v == ValidateBundle(b) IN
         IF v.kind = "Ok"
         THEN [result |-> "Ok", heap |-> HeapPush(h, b)]
         ELSE [result |-> "Err", heap |-> HeapPush(h, b)]
    ELSE [result |-> "Ok", heap |-> HeapPush(h, b)]

\* BundleAuction::add_bundle on the heap h, sim telling whether a simulator
\* is attached
HeapAddResult(h, sim, b) ==
    IF sim
    THEN LET v == ValidateBundle(b) IN
         IF v.kind = "Ok"
         THEN [result |-> "Ok", heap |-> HeapPush(h, b)]
         ELSE [result |-> "Err", heap |-> h]
    ELSE [result |-> "Ok", heap |-> HeapPush(h, b)]

HeapInit ==
    /\ simulator \in BOOLEAN
    /\ auction_heap = <<>>
    /\ h_last = NoHeapCall

\* auction.add_bundle(bundle).await
HeapAddBundle ==
    /\ Len(auction_heap) < MaxHeap
    /\ \E b \in HeapBundle :
        LET r == HeapAddResult(auction_heap, simulator, b) IN
        /\ auction_heap' = r.heap
        /\ h_last' = [op |-> "add_bundle", bundle |-> b, result |-> r.result,
                      before |-> auction_heap]
    /\ UNCHANGED simulator
    /\ UNCHANGED nonHeapVars

\* auction.select_winning_bundles(max_bundles)
SelectWinningBundles ==
    /\ \E k \in 0..MaxSelect : \E r \in Pops(auction_heap, k) :
        /\ auction_heap' = r.rest
        /\ h_last' = [op |-> "select_winning_bundles", max_bundles |-> k,
                      winners |-> r.winners, before |-> auction_heap]
    /\ UNCHANGED simulator
    /\ UNCHANGED nonHeapVars

\* =========================================================================
\* Part V  Block hashing (block_assembler.rs)
\* =========================================================================
\* The winning bundles are assembled several times while the system clock
\* runs.  A byte of the hasher's input is the pair <<"byte", n>>; the bytes of
\* a serialized transaction and of an id string are kept as one token each,
\* <<"tx", a>> and <<"id", k>>.  SHA-256 is taken to be free of collisions: a
\* digest is the record of the input it was computed from.
HashBundleSeqs ==
    {w \in WinnerSeqs :
        \A i \in 1..Len(w) :
            w[i].tip = 1 /\ w[i].txs \in {<<>>, <<1>>, <<1, 2>>}}

RECURSIVE ShiftRightBytes(_, _)
ShiftRightBytes(n, k) == IF k = 0 THEN n ELSE ShiftRightBytes(n \div 256, k - 1)

\* u64::to_le_bytes: eight bytes, the least significant first
ToLeBytes(n) == [i \in 1..8 |-> <<"byte", ShiftRightBytes(n, i - 1) % 256>>]

\* bincode::serialize(tx), line 295
Bincode(tx) == <<"tx", tx>>

\* bundle.id.to_string() (line 233) followed by as_bytes() (line 301)
IdBytes(id) == <<"id", id>>

Sha256(input) == [sha256 |-> input]

\* compute_block_hash, lines 282-305
ComputeBlockHash(transactions, bundle_ids, timestamp) ==
    Sha256(ToLeBytes(timestamp)
               \o [i \in 1..Len(transactions) |-> Bincode(transactions[i])]
               \o [i \in 1..Len(bundle_ids) |-> IdBytes(bundle_ids[i])])

\* Hash::new_unique(), line 115: a hash made from a process-wide counter
NewUnique(n) == [unique |-> n]

\* SystemTime::now().duration_since(UNIX_EPOCH).unwrap().as_secs()
NowSecs == sys_time \div TicksPerSec

BundleIds(bs) == [i \in 1..Len(bs) |-> bs[i].id]

\* a template whose compute limit allows what its transaction limit allows
HashTemplate(mt) ==
    [kind |-> "template", slot |-> 1, parent_hash |-> "h1",
     leader_pubkey |-> "leader", max_transactions |-> mt,
     max_compute_units |-> mt * ComputeUnitsPerTx]

\* what is kept of an assembled block: the entry point, when it ran, and the
\* fields of the block that the hash is said to depend on
Assembled(name, blk, hash) ==
    [entry |-> name, at |-> sys_time, timestamp |-> NowSecs,
     transactions |-> blk.transactions, bundle_ids |-> BundleIds(blk.bundles),
     blockhash |-> hash]

HashInit ==
    /\ sys_time = TicksPerSec
    /\ unique_counter = 0
    /\ hash_bundles \in HashBundleSeqs
    /\ assemblies = <<>>

\* the system clock advances
HashTick ==
    /\ sys_time < TicksPerSec + MaxHashTicks
    /\ sys_time' = sys_time + 1
    /\ UNCHANGED <<unique_counter, hash_bundles, assemblies>>
    /\ UNCHANGED nonHashVars

\* BlockAssembler::assemble_block, lines 107-122: blockhash is
\* Hash::new_unique()
HashAssembleMethod ==
    /\ Len(assemblies) < MaxAssemblies
    /\ \E mt \in TxLimits :
        LET blk == AssembleBlockOp(HashTemplate(mt), hash_bundles) IN
        assemblies' = Append(assemblies,
                             Assembled("BlockAssembler::assemble_block", blk,
                                       NewUnique(unique_counter)))
    /\ unique_counter' = unique_counter + 1
    /\ UNCHANGED <<sys_time, hash_bundles>>
    /\ UNCHANGED nonHashVars

\* the free function assemble_block, lines 213-218 and 244-251
HashAssembleFree ==
    /\ Len(assemblies) < MaxAssemblies
    /\ LET blk == FreeAssemble(hash_bundles) IN
       assemblies' = Append(assemblies,
                            Assembled("assemble_block", blk,
                                      ComputeBlockHash(blk.transactions,
                                                       BundleIds(blk.bundles),
                                                       NowSecs)))
    /\ UNCHANGED <<sys_time, unique_counter, hash_bundles>>
    /\ UNCHANGED nonHashVars

\* =========================================================================
\* Part VI  MockValidator and ValidatorNetwork (validator.rs)
\* =========================================================================
\* failure_rate is kept in thousandths (0.05 is 50), as is the value that
\* should_fail draws.  A block is the record of the fields the validator
\* reads: transactions, bundles and timestamp.
Validators == 1..NumValidators

ValBundle(txs) == [id |-> 1, tip |-> 1, txs |-> txs]

ValBlock(txs, bundle_txs, ts) ==
    [transactions |-> txs, bundles |-> <<ValBundle(bundle_txs)>>,
     timestamp |-> ts]

\* blocks built by hand, as create_test_block does (lines 382-400): one that
\* passes the structural checks, one that lacks a transaction of its bundle
\* and one with timestamp 0
ValBlocks ==
    {ValBlock(<<1>>, <<1>>, 1), ValBlock(<<1>>, <<2>>, 1),
     ValBlock(<<1>>, <<1>>, 0)}

FailureRates == {0, 500, 1000}

\* (hasher.finish() % 1000) as f64 / 1000.0, line 218, in thousandths
RandomValues == {0, 500}

\* MockValidator::new, lines 23-33
NewValidator ==
    [failure_rate |-> 0,
     max_transactions_per_block |-> DefaultMaxTransactions,
     max_compute_units_per_block |-> DefaultMaxComputeUnits]

\* with_failure_rate and with_limits, lines 36-55, and the public fields
CustomValidators ==
    [failure_rate : FailureRates,
     max_transactions_per_block : 0..MaxValTx,
     max_compute_units_per_block :
         {k * ValidatorComputeUnitsPerTx : k \in 0..MaxValTx}]

\* ValidatorNetwork::new, lines 311-323: validator i of 0..count-1
NetworkValidator(i) ==
    [NewValidator EXCEPT !.failure_rate =
        IF i % 3 = 0 THEN 50 ELSE IF i % 3 = 1 THEN 100 ELSE 20]

\* format!("validator_{}", i), line 313
ValidatorId(v) == <<"validator", v - 1>>

ValidatorValidateMutSkipsTimestamp(cfg, b) ==
    IF Len(b.transactions) > cfg.max_transactions_per_block
    THEN "Block contains too many transactions"
    ELSE IF Len(b.transactions) * ValidatorComputeUnitsPerTx
                > cfg.max_compute_units_per_block
    THEN "Block exceeds compute unit limit"
    ELSE IF \E i \in 1..Len(b.bundles) :
               \E j \in 1..Len(b.bundles[i].txs) :
                   b.bundles[i].txs[j] \notin Range(b.transactions)
    THEN "Missing transaction from bundle"
    ELSE "Ok"

\* MockValidator::validate_block, lines 92-142; an error is given as its
\* Display text (block_assembler.rs:186-196)
ValidatorValidate(cfg, b) ==
    IF Len(b.transactions) > cfg.max_transactions_per_block
    THEN "Block contains too many transactions"
    ELSE IF Len(b.transactions) * ValidatorComputeUnitsPerTx
                > cfg.max_compute_units_per_block
    THEN "Block exceeds compute unit limit"
    ELSE IF \E i \in 1..Len(b.bundles) :
               \E j \in 1..Len(b.bundles[i].txs) :
                   b.bundles[i].txs[j] \notin Range(b.transactions)
    THEN "Missing transaction from bundle"
    ELSE IF b.timestamp = 0
    THEN "Invalid block structure: Invalid timestamp"
    ELSE "Ok"

\* MockValidator::should_fail, lines 204-221
ShouldFail(failure_rate, random_value) ==
    IF failure_rate <= 0 THEN FALSE
    ELSE IF failure_rate >= 1000 THEN TRUE
    ELSE random_value < failure_rate

Accepted(signature) == [kind |-> "Accepted", signature |-> signature]

Rejected(reason) == [kind |-> "Rejected", reason |-> reason]

\* the match of submit_block, lines 71-88; the value is wrapped in Ok
SubmitOutcome(cfg, b, random_value, signature) ==
    LET v == ValidatorValidate(cfg, b) IN
    [kind |-> "Ok",
     value |-> IF v = "Ok"
               THEN IF ShouldFail(cfg.failure_rate, random_value)
                    THEN Rejected("Random validation failure")
                    ELSE Accepted(signature)
               ELSE Rejected(v)]

\* accept_block, lines 176-177
AcceptBlock(accepted, b) == Append(accepted, b)

RejectBlockMutForgets(rejected, b, reason) ==
    IF reason = "Random validation failure" THEN rejected
    ELSE Append(rejected, <<b, reason>>)

\* reject_block, lines 199-200
RejectBlock(rejected, b, reason) == Append(rejected, <<b, reason>>)

\* the logs of validator v once it has recorded b under the outcome r
LogsAfter(v, b, r) ==
    IF r.value.kind = "Accepted"
    THEN [accepted |-> AcceptBlock(accepted_blocks[v], b),
          rejected |-> rejected_blocks[v]]
    ELSE [accepted |-> accepted_blocks[v],
          rejected |-> RejectBlock(rejected_blocks[v], b, r.value.reason)]

LogsOf(v) == [accepted |-> accepted_blocks[v], rejected |-> rejected_blocks[v]]

NoNet == [pc |-> "idle", calls |-> 0]

ValidatorCommonInit ==
    /\ accepted_blocks = [v \in Validators |-> <<>>]
    /\ rejected_blocks = [v \in Validators |-> <<>>]
    /\ submissions = <<>>
    /\ net = NoNet
    /\ completed = [v \in Validators |-> 0]
    /\ signature_counter = 0

\* one validator set up by its owner, the others as MockValidator::new()
ValidatorInit ==
    /\ \E cfg \in CustomValidators :
           validators = [v \in Validators |-> IF v = 1 THEN cfg ELSE NewValidator]
    /\ ValidatorCommonInit

\* ValidatorNetwork::new(NumValidators)
NetworkInit ==
    /\ validators = [v \in Validators |-> NetworkValidator(v - 1)]
    /\ ValidatorCommonInit

\* validator.submit_block(block) on the validator its owner has set up, up to
\* its first await, the sleep of line 68
SubmitBlock ==
    /\ Len(submissions) < MaxSubmissions
    /\ \E b \in ValBlocks :
           submissions' = Append(submissions,
                                 [validator |-> 1, block |-> b,
                                  state |-> "sleeping"])
    /\ UNCHANGED <<validators, accepted_blocks, rejected_blocks, net,
                   completed, signature_counter>>
    /\ UNCHANGED nonValidatorVars

\* the rest of submit_block, lines 71-88: the sleep is over; validate, draw,
\* record and return
FinishSubmitBlock ==
    /\ \E i \in 1..Len(submissions), rv \in RandomValues :
        LET call == submissions[i]
            v == call.validator
            r == SubmitOutcome(validators[v], call.block, rv, signature_counter)
            after == LogsAfter(v, call.block, r)
        IN /\ call.state = "sleeping"
           /\ accepted_blocks' = [accepted_blocks EXCEPT ![v] = after.accepted]
           /\ rejected_blocks' = [rejected_blocks EXCEPT ![v] = after.rejected]
           /\ completed' = [completed EXCEPT ![v] = @ + 1]
           /\ signature_counter' =
                  IF r.value.kind = "Accepted" THEN signature_counter + 1
                  ELSE signature_counter
           /\ submissions' =
                  [submissions EXCEPT ![i] =
                      [validator |-> v, block |-> call.block, state |-> "done",
                       draw |-> rv, result |-> r,
                       before |-> LogsOf(v), after |-> after]]
    /\ UNCHANGED <<validators, net>>
    /\ UNCHANGED nonValidatorVars

\* validator.clear_history(), lines 252-259; while a call of
\* submit_block_to_network runs, nobody clears
ClearHistory ==
    /\ net.pc # "running"
    /\ \E v \in Validators :
        /\ accepted_blocks[v] # <<>> \/ rejected_blocks[v] # <<>>
        /\ accepted_blocks' = [accepted_blocks EXCEPT ![v] = <<>>]
        /\ rejected_blocks' = [rejected_blocks EXCEPT ![v] = <<>>]
        /\ completed' = [completed EXCEPT ![v] = 0]
    /\ UNCHANGED <<validators, submissions, net, signature_counter>>
    /\ UNCHANGED nonValidatorVars

PushResultMutDropsRejected(results, id, r) ==
    IF r.kind = "Rejected" THEN results ELSE Append(results, <<id, r>>)

\* results.push(future.await), line 350, the future giving (validator_id,
\* result) (lines 343-344)
PushResult(results, id, r) == Append(results, <<id, r>>)

\* network.submit_block_to_network(block) up to its first await: lines
\* 339-346 build one future per validator and run none of them; the loop of
\* line 349 awaits the first, which runs validator 0's submit_block up to its
\* sleep
SubmitBlockToNetwork ==
    /\ net.pc \in {"idle", "done"}
    /\ net.calls < MaxSubmissions
    /\ \E b \in ValBlocks :
        net' = [pc |-> "running", calls |-> net.calls + 1, block |-> b,
                awaited |-> 1, results |-> <<>>,
                trace |-> <<<<"start", 1>>>>,
                before |-> [v \in Validators |-> LogsOf(v)],
                after |-> [v \in Validators |-> LogsOf(v)]]
    /\ UNCHANGED <<validators, accepted_blocks, rejected_blocks, submissions,
                   completed, signature_counter>>
    /\ UNCHANGED nonValidatorVars

\* the sleep of the awaited validator is over: its submit_block validates,
\* draws, records and returns, the pair is pushed (line 350), and the loop
\* awaits the next future, which runs the next validator's submit_block up to
\* its sleep; after the last one the function returns (line 367)
AwaitNextValidator ==
    /\ net.pc = "running"
    /\ \E rv \in RandomValues :
        LET v == net.awaited
            r == SubmitOutcome(validators[v], net.block, rv, signature_counter)
            after == LogsAfter(v, net.block, r)
            results == PushResult(net.results, ValidatorId(v), r.value)
            finished == Append(net.trace, <<"finish", v>>)
        IN /\ accepted_blocks' = [accepted_blocks EXCEPT ![v] = after.accepted]
           /\ rejected_blocks' = [rejected_blocks EXCEPT ![v] = after.rejected]
           /\ completed' = [completed EXCEPT ![v] = @ + 1]
           /\ signature_counter' =
                  IF r.value.kind = "Accepted" THEN signature_counter + 1
                  ELSE signature_counter
           /\ net' = IF v < NumValidators
                     THEN [net EXCEPT !.awaited = v + 1, !.results = results,
                                      !.after[v] = after,
                                      !.trace = Append(finished, <<"start", v + 1>>)]
                     ELSE [net EXCEPT !.pc = "done", !.awaited = v + 1,
                                      !.results = results, !.after[v] = after,
                                      !.trace = finished]
    /\ UNCHANGED <<validators, submissions>>
    /\ UNCHANGED nonValidatorVars

\* =========================================================================
\* Part VII  The engine loop (main.rs) and the demo (auction_demo.rs)
\* =========================================================================
\* A bundle read from Redis is [id, tip, searcher_pubkey]; the k-th of the
\* list carries id k.  The list is read again on every pass.
Searchers == {"searcher_a", "searcher_b"}

RedisTips == {1, 2}

RedisLists ==
    UNION {{l \in [1..n -> [id : 1..MaxRedis, tip : RedisTips,
                            searcher_pubkey : Searchers]]
               : \A i \in 1..n : l[i].id = i} : n \in 0..MaxRedis}

\* the v4 Uuids that Bundle::new draws for n bundles (bundle.rs:18), as their
\* order: the i-th bundle gets the u[i]-th smallest
UuidOrders(n) ==
    {u \in [1..n -> 1..n] : \A i, j \in 1..n : i # j => u[i] # u[j]}

\* InternalBundle::new(vec![], b.tip, b.searcher_pubkey.clone()), lines 67-71
InternalBundle(rb, uuid) ==
    [id |-> uuid, tip |-> rb.tip, searcher_pubkey |-> rb.searcher_pubkey,
     txs |-> <<>>]

\* simulate_auction_with_bundles, auction.rs:349-372: a window of 200 ms is
\* opened, the bundles are offered to try_add_bundle in turn, of which the
\* first `admitted` find the window open, and select_and_log_winners ranks
\* and takes
SimulateAuctionWithBundles(bs, admitted, max) ==
    Take(SortBy(SubSeq(bs, 1, admitted)), max)

Matches(rb, winner) ==
    rb.tip = winner.tip /\ rb.searcher_pubkey = winner.searcher_pubkey

RECURSIVE OrderedBundles(_, _, _)
\* lines 84-98: for the winner at idx, the first bundle of the list with the
\* winner's tip and searcher
OrderedBundles(rbs, winners, idx) ==
    IF idx > Len(winners) THEN <<>>
    ELSE LET found == {i \in 1..Len(rbs) : Matches(rbs[i], winners[idx])} IN
         IF idx - 1 < Len(rbs) /\ found # {}
         THEN <<rbs[CHOOSE i \in found : \A j \in found : i <= j]>>
                  \o OrderedBundles(rbs, winners, idx + 1)
         ELSE OrderedBundles(rbs, winners, idx + 1)

RECURSIVE OrderedHashInput(_)
\* lines 101-105: the id bytes and the tip of each ordered bundle
OrderedHashInput(obs) ==
    IF obs = <<>> THEN <<>>
    ELSE <<IdBytes(Head(obs).id)>> \o ToLeBytes(Head(obs).tip)
             \o OrderedHashInput(Tail(obs))

PipelineInit ==
    /\ redis_bundles \in RedisLists
    /\ runs = <<>>
    /\ demo_block = NoBlock

\* one pass of the loop of main over a key that holds bundles, lines 52-112
EngineLoopPass ==
    /\ redis_bundles # <<>>
    /\ Len(runs) < MaxRuns
    /\ \E u \in UuidOrders(Len(redis_bundles)),
          admitted \in 0..Len(redis_bundles) :
        LET internal_bundles ==
                [i \in 1..Len(redis_bundles) |->
                    InternalBundle(redis_bundles[i], u[i])]
            winning_bundles_ ==
                SimulateAuctionWithBundles(internal_bundles, admitted,
                                           MAX_BUNDLES_FOR_BLOCK)
            ordered_bundles == OrderedBundles(redis_bundles, winning_bundles_, 1)
        IN runs' = Append(runs,
                          [admitted |-> admitted,
                           uuids |-> u,
                           winners |-> winning_bundles_,
                           ordered_bundles |-> ordered_bundles,
                           ordered_hash |->
                               Sha256(OrderedHashInput(ordered_bundles))])
    /\ UNCHANGED <<redis_bundles, demo_block>>
    /\ UNCHANGED nonPipelineVars

\* the winners of a pass are assembled as the demo does,
\* auction_demo.rs:47-66
AssembleWinners ==
    /\ demo_block = NoBlock
    /\ \E i \in 1..Len(runs) :
           demo_block' = FreeAssembleWithParams(runs[i].winners, 1,
                                                DefaultHash, DefaultPubkey)
    /\ UNCHANGED <<redis_bundles, runs>>
    /\ UNCHANGED nonPipelineVars

\* =========================================================================
\* Part VIII  BundleAuction over MockSolanaRpcClient (simulator.rs:57-79)
\* =========================================================================
\* A transaction is the list of its signatures, each signature the string
\* that to_string() gives; Transaction::default() has none.
Signatures == {"sig_fail", "sig_ok"}

DefaultTransaction == [signatures |-> <<>>]

MockTransactions ==
    {DefaultTransaction} \cup {[signatures |-> <<s>>] : s \in Signatures}

MockTxSeqs ==
    {<<>>} \cup {<<tx>> : tx \in MockTransactions}
           \cup {<<[signatures |-> <<"sig_ok">>], tx>> :
                     tx \in {DefaultTransaction, [signatures |-> <<"sig_fail">>]}}

MockBundle == [id : {1}, tip : 1..MaxHeapTip, txs : MockTxSeqs]

Panic == [kind |-> "panic"]

\* MockSolanaRpcClient::simulate_transaction: transaction.signatures[0]
\* (line 60) is an index into a Vec, which panics when the Vec is empty
MockSimulateTransaction(failures, tx) ==
    IF tx.signatures = <<>> THEN Panic
    ELSE IF tx.signatures[1] \in failures
    THEN SimFailure("Instruction failed")
    ELSE SimSuccess

\* BundleAuction::add_bundle with a simulator whose client is the mock: the
\* structural check comes first, then every transaction is simulated in turn
\* (the mock never returns Err), then the results are looked at
MockAddResult(h, failures, b) ==
    LET answers == [i \in 1..Len(b.txs) |->
                        MockSimulateTransaction(failures, b.txs[i])]
        v == ValidateBundle([b EXCEPT !.txs = answers])
    IN
    IF Validate([ntx |-> Len(b.txs)]) = "Ok"
       /\ \E i \in 1..Len(answers) : answers[i] = Panic
    THEN [result |-> "panic", error |-> "index out of bounds", heap |-> h]
    ELSE IF v.kind = "Ok"
    THEN [result |-> "Ok", error |-> "", heap |-> HeapPush(h, b)]
    ELSE [result |-> "Err", error |-> v.error, heap |-> h]

MockAuctionInit ==
    /\ simulator = TRUE
    /\ auction_heap = <<>>
    /\ h_last = NoHeapCall
    /\ simulation_failures \in SUBSET {"sig_fail"}
    /\ sim_rejected = FALSE

\* auction.add_bundle(bundle).await; a panic unwinds the caller, which makes
\* no further call
MockAddBundle ==
    /\ Len(auction_heap) < MaxHeap
    /\ h_last.op = "add_bundle" => h_last.result # "panic"
    /\ \E b \in MockBundle :
        LET r == MockAddResult(auction_heap, simulation_failures, b) IN
        /\ auction_heap' = r.heap
        /\ h_last' = [op |-> "add_bundle", bundle |-> b, result |-> r.result,
                      before |-> auction_heap,
                      after_rejection |-> sim_rejected]
        /\ sim_rejected' =
               (sim_rejected
                   \/ (r.result = "Err" /\ r.error = "SimulationFailed"))
    /\ UNCHANGED <<simulator, simulation_failures>>
    /\ UNCHANGED <<poolVars, windowVars, streamVars, assemblerVars,
                   simulatorVars, hashVars, validatorVars, pipelineVars,
                   clientVars, preVars, queueVars, callVars>>

\* =========================================================================
\* Part IX  MockValidatorClient (block_assembler.rs:330-365)
\* =========================================================================
\* A block is told from another by its slot.
ClientBlocks == [slot : Slots]

ClientSubmitResultMutRecordsOnFailure(failing, blocks, b, n) ==
    IF failing
    THEN [kind |-> "Err", text |-> "Mock validator client set to fail",
          blocks |-> Append(blocks, b)]
    ELSE [kind |-> "Ok", signature |-> [unique |-> n],
          blocks |-> Append(blocks, b)]

\* submit_block, lines 350-359: the early return in failure mode, else the
\* push under the write lock and Signature::new_unique()
ClientSubmitResult(failing, blocks, b, n) ==
    IF failing
    THEN [kind |-> "Err", text |-> "Mock validator client set to fail",
          blocks |-> blocks]
    ELSE [kind |-> "Ok", signature |-> [unique |-> n],
          blocks |-> Append(blocks, b)]

\* MockValidatorClient::new()
ClientInit ==
    /\ should_fail = FALSE
    /\ submitted_blocks = <<>>
    /\ client_signatures = 0
    /\ client_log = <<>>

\* client.set_failure_mode(should_fail)
SetFailureMode ==
    /\ \E f \in BOOLEAN : f # should_fail /\ should_fail' = f
    /\ UNCHANGED <<submitted_blocks, client_signatures, client_log>>
    /\ UNCHANGED <<poolVars, windowVars, streamVars, assemblerVars,
                   simulatorVars, heapVars, hashVars, validatorVars,
                   pipelineVars, mockVars, preVars, queueVars,
                   callVars>>

\* client.submit_block(block).await: there is no await point inside, and
\* concurrent callers are serialized by the write lock
ClientSubmitBlock ==
    /\ Len(client_log) < MaxClientCalls
    /\ \E b \in ClientBlocks :
        LET r == ClientSubmitResult(should_fail, submitted_blocks, b,
                                    client_signatures)
        IN /\ submitted_blocks' = r.blocks
           /\ client_signatures' =
                  IF r.kind = "Ok" THEN client_signatures + 1
                  ELSE client_signatures
           /\ client_log' =
                  Append(client_log,
                         [block |-> b, failure_mode |-> should_fail,
                          kind |-> r.kind, before |-> submitted_blocks,
                          after |-> r.blocks])
    /\ UNCHANGED should_fail
    /\ UNCHANGED <<poolVars, windowVars, streamVars, assemblerVars,
                   simulatorVars, heapVars, hashVars, validatorVars,
                   pipelineVars, mockVars, preVars, queueVars,
                   callVars>>

\* =========================================================================
\* Part X  simulate_auction_with_bundles, step by step (auction.rs:349-372)
\* =========================================================================
\* The window of the function is the AuctionWindow of Part II; the 200 ms of
\* line 354 are duration_ms.  The clock runs between the calls of the loop.
\* the k-th bundle supplied carries the id k
PreInputs ==
    UNION {{l \in [1..n -> WindowBundle] :
                \A i \in 1..n : l[i].id = i /\ l[i].tip \in StreamTips}
           : n \in 0..MaxPreBundles}

InputExhaustedMutAtOnce(next, n) == TRUE

\* the for loop of lines 362-366 has offered every bundle
InputExhausted(next, n) == next > n

\* AuctionWindow::new with the bundles a caller supplies
PreInit ==
    /\ pre_input \in PreInputs
    /\ pre_pc = "loop"
    /\ pre_next = 1
    /\ pre_log = <<>>
    /\ pre_result = NoStreamResult

\* one turn of the loop: try_add_bundle(bundle), lines 143-158; its result is
\* always Ok, so the warn! of line 364 is never reached
PreTryAddBundle ==
    /\ pre_pc = "loop"
    /\ ~InputExhausted(pre_next, Len(pre_input))
    /\ LET b == pre_input[pre_next]
           open == IsWindowOpen(clock, start_time, duration_ms)
       IN /\ window_bundles' = IF open THEN Append(window_bundles, b)
                               ELSE window_bundles
          /\ collected' = IF open THEN Append(collected, b) ELSE collected
          /\ closed_seen' = (closed_seen \/ ~open)
          /\ pre_log' = Append(pre_log,
                               [bundle |-> b, at |-> clock,
                                result |-> [kind |-> "Ok", value |-> open]])
    /\ pre_next' = pre_next + 1
    /\ UNCHANGED <<clock, start_time, duration_ms, max_bundles_for_block,
                   w_last>>
    /\ UNCHANGED <<pre_input, pre_pc, pre_result>>
    /\ UNCHANGED <<poolVars, streamVars, assemblerVars, simulatorVars,
                   heapVars, hashVars, validatorVars, pipelineVars, mockVars,
                   clientVars, queueVars, callVars>>

\* lines 369-371: select_and_log_winners, Ok(winners)
PreSelectWinners ==
    /\ pre_pc = "loop"
    /\ InputExhausted(pre_next, Len(pre_input))
    /\ LET ranked_bundles == SortBy(window_bundles) IN
       /\ window_bundles' = ranked_bundles
       /\ pre_result' = [kind |-> "Ok",
                         winners |-> Take(ranked_bundles, max_bundles_for_block),
                         collected |-> window_bundles,
                         open_at_rank |->
                             IsWindowOpen(clock, start_time, duration_ms)]
    /\ pre_pc' = "done"
    /\ UNCHANGED <<clock, start_time, duration_ms, max_bundles_for_block,
                   collected, closed_seen, w_last>>
    /\ UNCHANGED <<pre_input, pre_next, pre_log>>
    /\ UNCHANGED <<poolVars, streamVars, assemblerVars, simulatorVars,
                   heapVars, hashVars, validatorVars, pipelineVars, mockVars,
                   clientVars, queueVars, callVars>>

\* =========================================================================
\* Part XI  The engine loop and the producers of a window's key
\*          (main.rs:48-162)
\* =========================================================================
\* Producers append entries to the Redis list bundle_window:{w} while the loop
\* of main works on it.  The k-th entry pushed is k.  Each Redis command is
\* atomic; the loop awaits between its commands.
QueueInit ==
    /\ redis_key = <<>>
    /\ loop_pc = "lrange"
    /\ bundles_json = <<>>
    /\ taken = {}
    /\ pushes = 0

\* a producer's RPUSH on the key
ProducerPush ==
    /\ pushes < MaxPushes
    /\ pushes' = pushes + 1
    /\ redis_key' = Append(redis_key, pushes + 1)
    /\ UNCHANGED <<loop_pc, bundles_json, taken>>
    /\ UNCHANGED <<poolVars, windowVars, streamVars, assemblerVars,
                   simulatorVars, heapVars, hashVars, validatorVars,
                   pipelineVars, mockVars, clientVars, preVars,
                   callVars>>

\* lines 52-56: con.lrange(&key, 0, -1); an empty answer sends the loop back
\* to its start after a sleep
LoopLrange ==
    /\ loop_pc = "lrange"
    /\ bundles_json' = redis_key
    /\ loop_pc' = IF redis_key = <<>> THEN "sleep" ELSE "auction"
    /\ UNCHANGED <<redis_key, taken, pushes>>
    /\ UNCHANGED <<poolVars, windowVars, streamVars, assemblerVars,
                   simulatorVars, heapVars, hashVars, validatorVars,
                   pipelineVars, mockVars, clientVars, preVars,
                   callVars>>

\* lines 58-157: the entries read are parsed and handed to
\* simulate_auction_with_bundles, the block is built and posted
LoopAuction ==
    /\ loop_pc = "auction"
    /\ taken' = taken \cup Range(bundles_json)
    /\ loop_pc' = "del"
    /\ UNCHANGED <<redis_key, bundles_json, pushes>>
    /\ UNCHANGED <<poolVars, windowVars, streamVars, assemblerVars,
                   simulatorVars, heapVars, hashVars, validatorVars,
                   pipelineVars, mockVars, clientVars, preVars,
                   callVars>>

\* line 160: con.del(&key) removes the key with whatever it holds now
LoopDel ==
    /\ loop_pc = "del"
    /\ redis_key' = <<>>
    /\ bundles_json' = <<>>
    /\ loop_pc' = "sleep"
    /\ UNCHANGED <<taken, pushes>>
    /\ UNCHANGED <<poolVars, windowVars, streamVars, assemblerVars,
                   simulatorVars, heapVars, hashVars, validatorVars,
                   pipelineVars, mockVars, clientVars, preVars,
                   callVars>>

\* =========================================================================
\* Part XII  A set of pool calls started together (transaction_pool.rs)
\* =========================================================================
\* Each task has one call to make, chosen before any of them runs.  A task
\* whose call has not entered yet is waiting for the lock on the map.
CallOps == PoolOps \cup {"get_bundles_by_tip_range"}

CallsInit == todo \in [Tasks -> CallOps]

\* the first line of every operation: self.bundles.write() or .read(),
\* lines 34, 57, 61, 78, 89, 99, 124
StartCall(t) ==
    /\ pc[t] = "idle"
    /\ todo[t] # "none"
    /\ CanAcquire(bundles_lock, todo[t])
    /\ bundles_lock' = Acquire(bundles_lock, t, todo[t])
    /\ arg' = [arg EXCEPT ![t] = [op |-> todo[t]]]
    /\ pc' = [pc EXCEPT ![t] =
                 IF todo[t] = "get_bundle" THEN "gb_l57"
                 ELSE IF todo[t] = "get_bundles_by_tip_range" THEN "tr_l91"
                 ELSE "lock_queue"]
    /\ todo' = [todo EXCEPT ![t] = "none"]
    /\ UNCHANGED <<bundles, pending_queue, max_pool_size, queue_lock,
                   event_channel, ret, pre, sent, unsent, undelivered>>
    /\ UNCHANGED <<windowVars, streamVars, assemblerVars, simulatorVars,
                   heapVars, hashVars, validatorVars, pipelineVars, mockVars,
                   clientVars, preVars, queueVars>>

\* lines 54 and 161: the sleep before the next pass
LoopSleep ==
    /\ loop_pc = "sleep"
    /\ loop_pc' = "lrange"
    /\ UNCHANGED <<redis_key, bundles_json, taken, pushes>>
    /\ UNCHANGED <<poolVars, windowVars, streamVars, assemblerVars,
                   simulatorVars, heapVars, hashVars, validatorVars,
                   pipelineVars, mockVars, clientVars, preVars,
                   callVars>>

\* the part of the state a specification does not use
PoolUnused ==
    /\ bundles = EmptyMap
    /\ pending_queue = <<>>
    /\ max_pool_size = 0
    /\ bundles_lock = FreeLock
    /\ queue_lock = FreeLock
    /\ event_channel = NewChannel
    /\ pc = [t \in Tasks |-> "idle"]
    /\ arg = [t \in Tasks |-> NoArg]
    /\ ret = [t \in Tasks |-> NoRet]
    /\ pre = [t \in Tasks |-> NoPre]
    /\ sent = [t \in Tasks |-> <<>>]
    /\ unsent = <<>>
    /\ undelivered = <<>>

WindowUnused ==
    /\ clock = 0
    /\ start_time = 0
    /\ duration_ms = 0
    /\ max_bundles_for_block = 0
    /\ window_bundles = <<>>
    /\ collected = <<>>
    /\ closed_seen = FALSE
    /\ w_last = NoCall

AssemblerUnused ==
    /\ leader_pubkey = "leader"
    /\ max_transactions_per_block = 0
    /\ max_compute_units_per_block = 0
    /\ winning_bundles = <<>>
    /\ template = NoTemplate
    /\ block = NoBlock
    /\ entry = NoEntry
    /\ verdict = "none"

StreamUnused ==
    /\ chan = <<>>
    /\ sender_open = FALSE
    /\ receiver_alive = FALSE
    /\ c_pc = "none"
    /\ deadline = 0
    /\ sent_log = <<>>
    /\ stream_result = NoStreamResult
    /\ exit_reason = "none"

SimulatorUnused ==
    /\ sim_bundle = [id |-> 1, tip |-> 1, txs |-> <<>>]
    /\ sim_result = NoResult

HeapUnused ==
    /\ simulator = FALSE
    /\ auction_heap = <<>>
    /\ h_last = NoHeapCall

HashUnused ==
    /\ sys_time = 0
    /\ unique_counter = 0
    /\ hash_bundles = <<>>
    /\ assemblies = <<>>

ValidatorUnused ==
    /\ validators = [v \in Validators |-> NewValidator]
    /\ ValidatorCommonInit

PipelineUnused ==
    /\ redis_bundles = <<>>
    /\ runs = <<>>
    /\ demo_block = NoBlock

\* the parts added to the six above, unused
MockUnused ==
    /\ simulation_failures = {}
    /\ sim_rejected = FALSE

ClientUnused ==
    /\ should_fail = FALSE
    /\ submitted_blocks = <<>>
    /\ client_signatures = 0
    /\ client_log = <<>>

PreUnused ==
    /\ pre_input = <<>>
    /\ pre_pc = "none"
    /\ pre_next = 0
    /\ pre_log = <<>>
    /\ pre_result = NoStreamResult

QueueUnused ==
    /\ redis_key = <<>>
    /\ loop_pc = "none"
    /\ bundles_json = <<>>
    /\ taken = {}
    /\ pushes = 0

CallsUnused == todo = [t \in Tasks |-> "none"]

LateUnused ==
    MockUnused /\ ClientUnused /\ PreUnused /\ QueueUnused /\ CallsUnused

LaterUnused == HashUnused /\ ValidatorUnused /\ PipelineUnused /\ LateUnused


\* the steps of a call that changes the pool
WriterStep(t) ==
    \/ LockQueue(t)
    \/ AddCheck(t)
    \/ AddInsert(t)
    \/ AddPush(t)
    \/ AddSend(t)
    \/ RemoveFromMap(t)
    \/ RemoveRetain(t)
    \/ RemoveSend(t)
    \/ ClearBundles(t)
    \/ ClearQueue(t)
    \/ DropQueueGuard(t)
    \/ DropBundlesGuard(t)

\* the steps of a call that reads the pool
ReaderStep(t) ==
    \/ GetPending(t)
    \/ Stats(t)
    \/ GetBundle(t)

\* the two queries over the tips of the pool
QueryStep(t) ==
    \/ Stats(t)
    \/ GetBundlesByTipRange(t)

\* Tasks calling every operation of a pool nobody is subscribed to.
PoolNext ==
    \E t \in Tasks :
        \/ LockBundles(t, PoolOps, MaxQueue)
        \/ WriterStep(t)
        \/ ReaderStep(t)

PoolSpecInit ==
    PoolInit /\ StreamUnused /\ WindowUnused /\ AssemblerUnused /\ SimulatorUnused /\ HeapUnused /\ LaterUnused

SpecPool == PoolSpecInit /\ [][PoolNext]_vars

\* Tasks changing the pool and asking for its statistics and tip ranges; the
\* queue may grow one id longer than in SpecPool, which lets an id added
\* twice sit in it next to the ids of a full pool.
QueriesNext ==
    \E t \in Tasks :
        \/ LockBundles(t, QueryOps, MaxQueue + 1)
        \/ WriterStep(t)
        \/ QueryStep(t)

QueriesSpecInit ==
    PoolInit /\ StreamUnused /\ WindowUnused /\ AssemblerUnused /\ SimulatorUnused /\ HeapUnused /\ LaterUnused

SpecPoolQueries == QueriesSpecInit /\ [][QueriesNext]_vars

\* Tasks calling the operations that change the pool, and one subscriber.
\* The reading operations change neither the pool nor the channel.
EventsNext ==
    \/ \E t \in Tasks :
        \/ LockBundles(t, MutatingOps, MaxQueue)
        \/ WriterStep(t)
    \/ Subscribe
    \/ Recv
    \/ DropReceiver

EventsSpecInit ==
    PoolInit /\ StreamUnused /\ WindowUnused /\ AssemblerUnused /\ SimulatorUnused /\ HeapUnused /\ LaterUnused

SpecPoolEvents == EventsSpecInit /\ [][EventsNext]_vars

\* One auction window as time passes: its owner offers it bundles and asks
\* whether it is open.
WindowNext ==
    \/ Tick
    \/ TryAddBundle
    \/ CheckWindowOpen

WindowSpecInit ==
    WindowInit /\ StreamUnused /\ PoolUnused /\ AssemblerUnused /\ SimulatorUnused /\ HeapUnused /\ LaterUnused

SpecWindow == WindowSpecInit /\ [][WindowNext]_vars

\* One auction window at one instant: its owner offers it bundles, ranks them
\* and selects the winners, in any order.
AuctionNext ==
    \/ TryAddBundle
    \/ RankBundlesByPriority
    \/ SelectAndLogWinners

AuctionSpecInit ==
    WindowInit /\ StreamUnused /\ PoolUnused /\ AssemblerUnused /\ SimulatorUnused /\ HeapUnused /\ LaterUnused

SpecAuction == AuctionSpecInit /\ [][AuctionNext]_vars

\* the assembler: a caller gets or builds a template, assembles and validates
AssemblerNext ==
    \/ CreateBlockTemplate
    \/ BuildTemplate
    \/ AssembleBlock
    \/ AssembleBlockFree
    \/ AssembleBlockWithParams
    \/ ValidateBlock

AssemblerSpecInit ==
    AssemblerInit /\ StreamUnused /\ PoolUnused /\ WindowUnused /\ SimulatorUnused /\ HeapUnused /\ LaterUnused

SpecAssembler == AssemblerSpecInit /\ [][AssemblerNext]_vars

\* the admission filter applied to one bundle
SimulatorNext == CallValidateBundle

SimulatorSpecInit ==
    SimulatorInit /\ StreamUnused /\ PoolUnused /\ WindowUnused /\ AssemblerUnused /\ HeapUnused /\ LaterUnused

SpecSimulator == SimulatorSpecInit /\ [][SimulatorNext]_vars

\* the heap auction and its single owner
HeapNext ==
    \/ HeapAddBundle
    \/ SelectWinningBundles

HeapSpecInit ==
    HeapInit /\ StreamUnused /\ PoolUnused /\ WindowUnused /\ AssemblerUnused /\ SimulatorUnused /\ LaterUnused

SpecHeap == HeapSpecInit /\ [][HeapNext]_vars

\* one run of simulate_auction_window next to the sending task
StreamNext ==
    \/ Tick
    \/ StreamSend
    \/ DropSender
    \/ CollectorStep

StreamSpecInit ==
    StreamInit /\ WindowInit /\ PoolUnused /\ AssemblerUnused /\ SimulatorUnused /\ LaterUnused
               /\ HeapUnused

SpecStream == StreamSpecInit /\ [][StreamNext]_vars

\* time passes and the runtime keeps running the collector task; nothing is
\* assumed of the sending task
SpecStreamFair ==
    SpecStream /\ WF_vars(Tick) /\ WF_vars(CollectorStep)

EarlierUnused ==
    /\ PoolUnused /\ WindowUnused /\ StreamUnused
    /\ AssemblerUnused /\ SimulatorUnused /\ HeapUnused

PreCollectedNext ==
    \/ Tick
    \/ PreTryAddBundle
    \/ PreSelectWinners

PreCollectedSpecInit ==
    /\ WindowInit /\ PreInit
    /\ PoolUnused /\ StreamUnused /\ AssemblerUnused /\ SimulatorUnused
    /\ HeapUnused /\ HashUnused /\ ValidatorUnused /\ PipelineUnused
    /\ MockUnused /\ ClientUnused /\ QueueUnused /\ CallsUnused

SpecPreCollected == PreCollectedSpecInit /\ [][PreCollectedNext]_vars

\* either entry point runs on a window of its own
EntryPointsNext ==
    \/ StreamNext
    \/ PreTryAddBundle
    \/ PreSelectWinners

EntryPointsSpecInit ==
    /\ WindowInit
    /\ \/ StreamInit /\ PreUnused
       \/ PreInit /\ StreamUnused
    /\ PoolUnused /\ AssemblerUnused /\ SimulatorUnused
    /\ HeapUnused /\ HashUnused /\ ValidatorUnused /\ PipelineUnused
    /\ MockUnused /\ ClientUnused /\ QueueUnused /\ CallsUnused

SpecEntryPoints == EntryPointsSpecInit /\ [][EntryPointsNext]_vars

QueueNext ==
    \/ ProducerPush
    \/ LoopLrange
    \/ LoopAuction
    \/ LoopDel
    \/ LoopSleep

QueueSpecInit ==
    /\ QueueInit
    /\ EarlierUnused /\ HashUnused /\ ValidatorUnused /\ PipelineUnused
    /\ MockUnused /\ ClientUnused /\ PreUnused /\ CallsUnused

SpecEngineQueue == QueueSpecInit /\ [][QueueNext]_vars

\* the steps of the thread that runs task t
CallStep(t) ==
    \/ StartCall(t)
    \/ WriterStep(t)
    \/ ReaderStep(t)
    \/ GetBundlesByTipRange(t)

CallsNext == \E t \in Tasks : CallStep(t)

CallsSpecInit ==
    /\ PoolInit /\ CallsInit
    /\ WindowUnused /\ StreamUnused /\ AssemblerUnused /\ SimulatorUnused
    /\ HeapUnused /\ HashUnused /\ ValidatorUnused /\ PipelineUnused
    /\ MockUnused /\ ClientUnused /\ PreUnused /\ QueueUnused

SpecPoolCalls == CallsSpecInit /\ [][CallsNext]_vars

\* every thread keeps being scheduled
SpecPoolCallsFair ==
    SpecPoolCalls /\ \A t \in Tasks : WF_vars(CallStep(t))

MockAuctionNext == MockAddBundle

MockAuctionSpecInit ==
    /\ MockAuctionInit
    /\ PoolUnused /\ WindowUnused /\ StreamUnused /\ AssemblerUnused
    /\ SimulatorUnused /\ HashUnused /\ ValidatorUnused /\ PipelineUnused
    /\ ClientUnused /\ PreUnused /\ QueueUnused /\ CallsUnused

SpecMockAuction == MockAuctionSpecInit /\ [][MockAuctionNext]_vars

ClientNext ==
    \/ SetFailureMode
    \/ ClientSubmitBlock

ClientSpecInit ==
    /\ ClientInit
    /\ EarlierUnused /\ HashUnused /\ ValidatorUnused /\ PipelineUnused
    /\ MockUnused /\ PreUnused /\ QueueUnused /\ CallsUnused

SpecValidatorClient == ClientSpecInit /\ [][ClientNext]_vars

\* the six parts before block hashing, unused
\* the same winning bundles assembled again and again while time passes
HashNext ==
    \/ HashTick
    \/ HashAssembleMethod
    \/ HashAssembleFree

HashSpecInit ==
    HashInit /\ LateUnused /\ EarlierUnused /\ ValidatorUnused /\ PipelineUnused

SpecBlockHash == HashSpecInit /\ [][HashNext]_vars

\* callers of one validator's submit_block and clear_history
ValidatorNext ==
    \/ SubmitBlock
    \/ FinishSubmitBlock
    \/ ClearHistory

ValidatorSpecInit ==
    ValidatorInit /\ LateUnused /\ EarlierUnused /\ HashUnused /\ PipelineUnused

SpecValidator == ValidatorSpecInit /\ [][ValidatorNext]_vars

\* one caller of submit_block_to_network, clearing histories between calls
NetworkNext ==
    \/ SubmitBlockToNetwork
    \/ AwaitNextValidator
    \/ ClearHistory

NetworkSpecInit ==
    NetworkInit /\ LateUnused /\ EarlierUnused /\ HashUnused /\ PipelineUnused

SpecNetwork == NetworkSpecInit /\ [][NetworkNext]_vars

\* passes of the engine loop over one window's bundles, and the demo's
\* assembly of the winners
PipelineNext ==
    \/ EngineLoopPass
    \/ AssembleWinners

PipelineSpecInit ==
    PipelineInit /\ LateUnused /\ EarlierUnused /\ HashUnused /\ ValidatorUnused

SpecPipeline == PipelineSpecInit /\ [][PipelineNext]_vars


\* =================================================================== claims
IsAdd(t) == pc[t] = "drop_queue" /\ arg[t].op = "add_bundle"

IsRemove(t) == pc[t] = "drop_queue" /\ arg[t].op = "remove_bundle"

IsGetPending(t) == pc[t] = "drop_queue" /\ arg[t].op = "get_pending_bundles"

\* C1: whatever add_bundle, remove_bundle and clear calls concurrent tasks
\* have made, and wherever they stand, the map holds at most max_pool_size
\* bundles.
C1_PoolSizeBounded == Cardinality(Keys(bundles)) <= max_pool_size

\* a full pool of two bundles has just turned an add away
C1_Witness ==
    /\ max_pool_size = 2
    /\ Cardinality(Keys(bundles)) = 2
    /\ \E t \in Tasks : IsAdd(t) /\ ret[t].kind = "PoolFull"

\* C2: a task that holds a read guard (get_pending_bundles, get_stats,
\* get_bundle) sees the same ids in the pending queue as keys in the map,
\* also while other tasks are inside add_bundle, remove_bundle or clear.
C2_ReadersSeeSameIds ==
    \A t \in Tasks :
        (t \in bundles_lock.readers \/ t \in queue_lock.readers)
            => Range(pending_queue) = Keys(bundles)

\* two tasks read a pool of two bundles at the same time
C2_Witness ==
    /\ Cardinality(Keys(bundles)) = 2
    /\ \E t, u \in Tasks :
        /\ t # u
        /\ IsGetPending(t) /\ Len(ret[t].items) = 2
        /\ u \in bundles_lock.readers

\* C3: when add_bundle returns PoolFull (the map held max_pool_size bundles)
\* or InvalidBundle (the bundle has 0 or more than 5 transactions), the map and
\* the queue are as they were when the call took the locks and the call has
\* published no event.
C3_RejectedAddChangesNothing ==
    \A t \in Tasks :
        (IsAdd(t) /\ ret[t].kind \in {"PoolFull", "InvalidBundle"}) =>
            /\ bundles = pre[t].bundles
            /\ pending_queue = pre[t].queue
            /\ sent[t] = <<>>
            /\ ret[t].kind = "PoolFull" =>
                   Cardinality(Keys(pre[t].bundles)) = max_pool_size
            /\ ret[t].kind = "InvalidBundle" =>
                   (arg[t].bundle.ntx = 0 \/ arg[t].bundle.ntx > 5)

\* a pool that holds a bundle turns away one of six transactions
C3_Witness ==
    \E t \in Tasks :
        /\ IsAdd(t)
        /\ ret[t].kind = "InvalidBundle"
        /\ arg[t].bundle.ntx = 6
        /\ bundles # EmptyMap

\* C4: get_pending_bundles(n) returns min(n, pool size) bundles, the oldest
\* ones of the pool in the order in which they were added: all different, the
\* i-th being the bundle of the i-th id of the queue.
C4_PendingIsOldestFifo ==
    \A t \in Tasks :
        IsGetPending(t) =>
            LET items == ret[t].items
                k == Min(arg[t].count, Cardinality(Keys(bundles)))
            IN /\ Len(items) = k
               /\ \A i \in 1..k : items[i] = bundles[pending_queue[i]]
               /\ \A i, j \in 1..k : i # j => items[i].id # items[j].id

\* the event a task will pass to send() for the change it has made to the map
PendingEvent(t) ==
    IF pc[t] \in {"add_l47", "add_l50"}
    THEN BundleAdded(arg[t].bundle.id)
    ELSE BundleRemoved(arg[t].id)

Publishing(t) == pc[t] \in {"add_l47", "add_l50", "rm_l66", "rm_l69"}

\* C5: a successful add_bundle(b) publishes exactly Added(b.id), a
\* remove_bundle(id) that removes a bundle exactly Removed(id), and a remove
\* of an absent id returns None, changes nothing and publishes nothing.  The
\* events are published in the order in which the operations changed the map
\* (every change is published before the next change is made), and what a
\* subscriber has still to receive is, in that order, the changes made since
\* it subscribed that it has neither received nor lost to lag.
C5_EventsFollowEffects ==
    /\ \A t \in Tasks :
        /\ (IsAdd(t) /\ ret[t].kind = "Ok") =>
               sent[t] = <<BundleAdded(arg[t].bundle.id)>>
        /\ (IsRemove(t) /\ ret[t].kind = "Some") =>
               /\ sent[t] = <<BundleRemoved(arg[t].id)>>
               /\ arg[t].id \in Keys(pre[t].bundles)
               /\ ret[t].bundle = pre[t].bundles[arg[t].id]
               /\ arg[t].id \notin Keys(bundles)
        /\ (IsRemove(t) /\ ret[t].kind = "None") =>
               /\ sent[t] = <<>>
               /\ arg[t].id \notin Keys(pre[t].bundles)
               /\ bundles = pre[t].bundles
               /\ pending_queue = pre[t].queue
        /\ Publishing(t) => unsent = <<PendingEvent(t)>>
    /\ (\A t \in Tasks : ~Publishing(t)) => unsent = <<>>
    /\ event_channel.subscribed =>
           undelivered = event_channel.buf \o unsent

\* a subscriber that has missed nothing finds Removed(id) as the next
\* event when remove_bundle(id) returns the bundle
C5_Witness ==
    \E t \in Tasks :
        /\ IsRemove(t)
        /\ ret[t].kind = "Some"
        /\ event_channel.subscribed
        /\ event_channel.missed = 0
        /\ event_channel.buf = <<BundleRemoved(arg[t].id)>>

\* C6: send() is never waited for, and whatever the state of the channel (no
\* subscriber, or one whose buffer is full and who loses events), an add of a
\* valid bundle to a pool with room returns Ok with the bundle in the map and
\* in the queue, and a remove of a present id returns the bundle and takes it
\* out of the map and the queue.
C6_PublishingNeverFailsTheOperation ==
    \A t \in Tasks :
        /\ pc[t] = "add_l50" => ENABLED AddSend(t)
        /\ pc[t] = "rm_l69" => ENABLED RemoveSend(t)
        /\ (IsAdd(t) /\ Admission(Cardinality(Keys(pre[t].bundles)),
                                  max_pool_size, arg[t].bundle) = "Ok") =>
               /\ ret[t].kind = "Ok"
               /\ arg[t].bundle.id \in Keys(bundles)
               /\ bundles[arg[t].bundle.id] = arg[t].bundle
               /\ pending_queue = Append(pre[t].queue, arg[t].bundle.id)
        /\ (IsRemove(t) /\ arg[t].id \in Keys(pre[t].bundles)) =>
               /\ ret[t] = [kind |-> "Some", bundle |-> pre[t].bundles[arg[t].id]]
               /\ arg[t].id \notin Keys(bundles)
               /\ arg[t].id \notin Range(pending_queue)

\* an add returns Ok while the subscriber's buffer is full and it has lost
\* an event
C6_Witness ==
    \E t \in Tasks :
        /\ IsAdd(t)
        /\ ret[t].kind = "Ok"
        /\ event_channel.subscribed
        /\ Len(event_channel.buf) = EventCap
        /\ event_channel.missed > 0

IsPermutation(r, s) ==
    /\ Len(r) = Len(s)
    /\ \A x \in Range(r) \cup Range(s) :
           Cardinality({i \in 1..Len(r) : r[i] = x})
               = Cardinality({i \in 1..Len(s) : s[i] = x})

\* the orders in which the bundles of s could have arrived
Perms(s) ==
    {p \in [1..Len(s) -> Range(s)] : IsPermutation(p, s)}

\* tip descending, ties broken by id ascending
IsRanked(r) ==
    \A i, j \in 1..Len(r) :
        i < j => \/ r[j].tip < r[i].tip
                 \/ (r[j].tip = r[i].tip /\ r[j].id > r[i].id)

\* C7: try_add_bundle returns Ok(true) and appends the bundle iff the time
\* since start_time is less than duration_ms, else Ok(false) and leaves the
\* bundles alone; once a call has found the window closed, it returns false.
C7_TryAddFollowsTheClock ==
    w_last.op = "try_add_bundle" =>
        /\ w_last.result.kind = "Ok"
        /\ w_last.result.value
               <=> (w_last.at - start_time < duration_ms * TicksPerMs)
        /\ window_bundles = IF w_last.result.value
                            THEN Append(w_last.before, w_last.bundle)
                            ELSE w_last.before
        /\ w_last.closed_before => ~w_last.result.value

\* a window that accepted a bundle and was then found closed rejects one
C7_Witness ==
    /\ w_last.op = "try_add_bundle"
    /\ w_last.closed_before
    /\ ~w_last.result.value
    /\ Len(window_bundles) >= 1

C9_WinnersIndependentOfArrival ==
    w_last.op = "select_and_log_winners" =>
        \A p \in Perms(collected) :
            Take(SortBy(p), max_bundles_for_block) = w_last.result

\* two winners of the same tip that arrived in the other order
C9_Witness ==
    /\ w_last.op = "select_and_log_winners"
    /\ Len(w_last.result) = 2
    /\ w_last.result[1].tip = w_last.result[2].tip
    /\ \E i, j \in 1..Len(collected) :
           i < j /\ collected[i] = w_last.result[2]
                 /\ collected[j] = w_last.result[1]

ByMethod == entry.name = "BlockAssembler::assemble_block"

ByFreeFunction == entry.name = "assemble_block"

ByWithParams == entry.name = "assemble_block_with_params"

\* positions in winning_bundles of the bundles listed in the block
IncludedIdx == {block.bundles[k].id : k \in 1..Len(block.bundles)}

RECURSIVE TxCountAt(_, _)
\* number of transactions of the bundles of ws at the positions S
TxCountAt(ws, S) ==
    IF S = {} THEN 0
    ELSE LET i == CHOOSE x \in S : TRUE IN Len(ws[i].txs) + TxCountAt(ws, S \ {i})

RECURSIVE TipSumAt(_, _)
\* sum of the tips of the bundles of ws at the positions S
TipSumAt(ws, S) ==
    IF S = {} THEN 0
    ELSE LET i == CHOOSE x \in S : TRUE IN ws[i].tip + TipSumAt(ws, S \ {i})

\* bs are bundles of ws, in the order they have in ws
KeepsOrder(bs, ws) ==
    /\ \A k \in 1..Len(bs) : bs[k].id \in 1..Len(ws) /\ bs[k] = ws[bs[k].id]
    /\ \A k \in 1..Len(bs), m \in 1..Len(bs) : k < m => bs[k].id < bs[m].id

\* txs is the transactions of bs[1], then those of bs[2], and so on
IsConcatenation(txs, bs) ==
    /\ Len(txs) = TxCountAt(bs, 1..Len(bs))
    /\ \A k \in 1..Len(bs) : \A j \in 1..Len(bs[k].txs) :
           txs[TxCountAt(bs, 1..(k - 1)) + j] = bs[k].txs[j]

\* C15 as stated: for every template, the block of assemble_block has at most
\* max_transactions transactions, at most max_compute_units estimated compute
\* (5000 per transaction), and validate_block of the same assembler accepts it.
\* Fails for a template whose limits are looser than the assembler's own.
C15_WithinLimitsAndValidForEveryTemplate ==
    ByMethod =>
        /\ Len(block.transactions) <= template.max_transactions
        /\ Len(block.transactions) * 5000 <= template.max_compute_units
        /\ verdict \in {"none", "Ok"}

\* C15 amended: the block of assemble_block is within both limits of the
\* template it was given, for every template; validate_block of the same
\* assembler accepts it whenever the template's limits do not exceed the
\* assembler's own, as for every template of create_block_template.
C15_WithinTemplateLimits ==
    ByMethod =>
        /\ Len(block.transactions) <= template.max_transactions
        /\ Len(block.transactions) * 5000 <= template.max_compute_units
        /\ (/\ template.max_transactions <= max_transactions_per_block
            /\ template.max_compute_units <= max_compute_units_per_block
            /\ verdict # "none") => verdict = "Ok"

C15_Witness ==
    /\ ByMethod
    /\ verdict = "Ok"
    /\ template.max_transactions = max_transactions_per_block
    /\ template.max_compute_units = max_compute_units_per_block
    /\ Len(block.transactions) = template.max_transactions
    /\ Len(block.bundles) < Len(winning_bundles)
    /\ Len(block.bundles) > 0

\* C16: assemble_block returns Ok; walking the winners in order it includes a
\* bundle iff, with the bundles included before it, the bundle keeps the
\* transaction count and the compute total within the template's limits; a
\* bundle that does not fit is skipped without ending the walk, and the
\* included bundles keep the order of the winners.
C16_GreedyWalk ==
    ByMethod =>
        /\ block.kind = "Ok"
        /\ KeepsOrder(block.bundles, winning_bundles)
        /\ \A i \in 1..Len(winning_bundles) :
               LET before == TxCountAt(winning_bundles,
                                       {j \in IncludedIdx : j < i})
                   with == before + Len(winning_bundles[i].txs)
               IN  i \in IncludedIdx <=>
                       /\ with <= template.max_transactions
                       /\ with * 5000 <= template.max_compute_units

C16_Witness ==
    /\ ByMethod
    /\ \E i \in 1..Len(winning_bundles), j \in 1..Len(winning_bundles) :
           /\ i < j
           /\ i \notin IncludedIdx
           /\ j \in IncludedIdx
           /\ Len(winning_bundles[j].txs) > 0

\* C17: total_tips of the block of assemble_block is the sum of the tips of
\* the bundles listed in block.bundles; a skipped bundle adds nothing.
C17_TotalTipsOfIncluded ==
    ByMethod =>
        block.total_tips = TipSumAt(block.bundles, 1..Len(block.bundles))

C17_Witness ==
    /\ ByMethod
    /\ Len(block.bundles) > 0
    /\ Len(block.bundles) < Len(winning_bundles)
    /\ block.total_tips > 0

\* C18 as stated: the transactions of the block of assemble_block are the
\* concatenation of the transactions of the included bundles, in selection
\* order and in each bundle's own order; every transaction of a listed bundle
\* is in block.transactions and no transaction of a skipped bundle is.
\* Fails when a skipped bundle carries a transaction that an included bundle
\* carries too.
C18_ConcatenationAndNothingOfSkipped ==
    ByMethod =>
        /\ KeepsOrder(block.bundles, winning_bundles)
        /\ IsConcatenation(block.transactions, block.bundles)
        /\ \A k \in 1..Len(block.bundles) :
               Range(block.bundles[k].txs) \subseteq Range(block.transactions)
        /\ \A i \in 1..Len(winning_bundles) :
               i \notin IncludedIdx =>
                   Range(winning_bundles[i].txs) \cap Range(block.transactions) = {}

\* C18 amended: the transactions of the block are exactly the concatenation
\* of the transactions of the included bundles, in selection order and in
\* each bundle's own order; every transaction of a listed bundle is in
\* block.transactions, and every entry of block.transactions comes from a
\* listed bundle (a skipped bundle adds no entry).
C18_ExactConcatenation ==
    ByMethod =>
        /\ KeepsOrder(block.bundles, winning_bundles)
        /\ IsConcatenation(block.transactions, block.bundles)
        /\ \A k \in 1..Len(block.bundles) :
               Range(block.bundles[k].txs) \subseteq Range(block.transactions)
        /\ Range(block.transactions) \subseteq
               UNION {Range(block.bundles[k].txs) : k \in 1..Len(block.bundles)}

C18_Witness ==
    /\ ByMethod
    /\ Len(block.bundles) = 1
    /\ Len(winning_bundles) = 2
    /\ Len(block.transactions) = 2
    /\ block.transactions[1] # block.transactions[2]
    /\ \E i \in 1..2 : i \notin IncludedIdx /\ winning_bundles[i].txs # <<>>

\* C19 as stated: every block, of BlockAssembler.assemble_block or of the free
\* function assemble_block, has total_fees = 5000 times its number of
\* transactions.  Fails for the free function, which sums the tips.
C19_TotalFeesPerTransactionEverywhere ==
    block # NoBlock => block.total_fees = Len(block.transactions) * 5000

\* C19 amended: every block of BlockAssembler.assemble_block has total_fees =
\* 5000 times its number of transactions; a block of the free function
\* assemble_block has total_fees = the sum of the tips of the supplied
\* bundles.
C19_TotalFeesByEntryPoint ==
    /\ ByMethod => block.total_fees = Len(block.transactions) * 5000
    /\ (ByFreeFunction \/ ByWithParams) =>
           block.total_fees = TipSumAt(winning_bundles, 1..Len(winning_bundles))

C19_Witness ==
    /\ ByMethod
    /\ Len(block.transactions) = 2
    /\ block.total_fees = 10000
    /\ block.total_tips # block.total_fees

\* C20: the free function assemble_block lists every supplied bundle and all
\* their transactions, whatever their number, with total_fees = total_tips =
\* the sum of all tips; the block of assemble_block_with_params is that block
\* with slot, parent_hash and leader_pubkey set to the arguments.
C20_FreeFunctionTakesEverything ==
    (ByFreeFunction \/ ByWithParams) =>
        /\ block.kind = "Ok"
        /\ block.bundles = winning_bundles
        /\ IsConcatenation(block.transactions, winning_bundles)
        /\ block.total_tips = TipSumAt(winning_bundles, 1..Len(winning_bundles))
        /\ block.total_fees = block.total_tips
        /\ ByFreeFunction =>
               /\ block.slot = 0
               /\ block.parent_hash = DefaultHash
               /\ block.leader_pubkey = DefaultPubkey
        /\ ByWithParams =>
               /\ block.slot = entry.args[1]
               /\ block.parent_hash = entry.args[2]
               /\ block.leader_pubkey = entry.args[3]
        /\ DOMAIN block = {"kind", "slot", "parent_hash", "transactions",
                           "bundles", "leader_pubkey", "total_fees",
                           "total_tips"}

C20_Witness ==
    /\ ByWithParams
    /\ entry.args = <<2, "h2", "other">>
    /\ Len(winning_bundles) = MaxWinners
    /\ Len(block.transactions) > MaxTxLimit
    /\ block.total_fees > 0

\* =========================================================================
\* Claims on the admission filter (SpecSimulator) and the heap auction
\* (SpecHeap)
\* =========================================================================
\* the simulation of transaction t reports success
ReportsSuccess(t) == t.kind = "Ok" /\ t.success

\* the error text that comes with the failed simulation of t
FailureText(t) ==
    IF t.kind = "Err" THEN t.text
    ELSE IF t.error = NoText THEN "Unknown simulation error"
    ELSE t.error

\* b passes the structural check and every simulation reports success
Admissible(b) ==
    /\ Len(b.txs) >= 1
    /\ Len(b.txs) <= 5
    /\ \A i \in 1..Len(b.txs) : ReportsSuccess(b.txs[i])

\* C13: validate_bundle(b) returns Ok iff b has 1 to 5 transactions and every
\* simulation reports success; a structurally invalid bundle is rejected with
\* no simulation call; when a simulation fails the SimulationFailed returned
\* carries the error text of the first failing transaction in bundle order.
\* Fails when a transaction after the first failing one gets an Err from the
\* client: the Err text is returned instead.
C13_ValidateBundleContract ==
    sim_result # NoResult =>
        LET txs == sim_bundle.txs
            failing == {i \in 1..Len(txs) : ~ReportsSuccess(txs[i])}
        IN
        /\ sim_result.kind = "Ok" <=> Admissible(sim_bundle)
        /\ (Len(txs) = 0 \/ Len(txs) > 5) =>
               /\ sim_result.error \in {"EmptyBundle", "TooManyTransactions"}
               /\ sim_result.calls = 0
        /\ (Len(txs) >= 1 /\ Len(txs) <= 5 /\ failing # {}) =>
               /\ sim_result.error = "SimulationFailed"
               /\ \E i \in failing :
                      /\ \A j \in failing : i <= j
                      /\ sim_result.detail = FailureText(txs[i])

\* C14: with a simulator attached, add_bundle returns an error for a bundle
\* that fails the structural check or a simulation, and the heap is left as
\* it was; every bundle the heap holds, and so every winner of
\* select_winning_bundles, is a whole bundle that passed both.
C14_RejectedBundleNeverHeld ==
    simulator =>
        /\ \A i \in 1..Len(auction_heap) :
               /\ Admissible(auction_heap[i].bundle)
               /\ auction_heap[i].bundle \in HeapBundle
        /\ h_last.op = "add_bundle" =>
               /\ h_last.result = "Ok" <=> Admissible(h_last.bundle)
               /\ h_last.result = "Err" => auction_heap = h_last.before
               /\ h_last.result = "Ok" =>
                      /\ Len(auction_heap) = Len(h_last.before) + 1
                      /\ auction_heap[Len(auction_heap)].bundle = h_last.bundle
        /\ h_last.op = "select_winning_bundles" =>
               \A i \in 1..Len(h_last.winners) :
                   /\ Admissible(h_last.winners[i])
                   /\ \E j \in 1..Len(h_last.before) :
                          h_last.before[j].bundle = h_last.winners[i]

C14_Witness ==
    /\ simulator
    /\ h_last.op = "add_bundle"
    /\ h_last.result = "Err"
    /\ h_last.bundle.tip = MaxHeapTip
    /\ Len(h_last.bundle.txs) = 1
    /\ Len(auction_heap) = 1
    /\ auction_heap[1].bundle.tip < MaxHeapTip

\* =========================================================================
\* Claims on simulate_auction_window (SpecStream, SpecStreamFair)
\* =========================================================================
StreamDone == c_pc = "done"

\* the collection loop is over
CollectionOver == c_pc \in {"select_winners", "done"}

\* C11: simulate_auction_window terminates and returns Ok(winners): the
\* collection ends once duration_ms has elapsed, also when the sender stays
\* open and never sends; it ends earlier, on recv() = None, when the sender is
\* dropped and the channel is empty, and the winners are then selected among
\* the bundles collected so far.
C11_WindowRunTerminates ==
    /\ <>StreamDone
    /\ [](exit_reason = "receiver closed" => ~sender_open /\ CollectionOver)
    /\ [](StreamDone =>
            /\ stream_result.kind = "Ok"
            /\ IsPermutation(window_bundles, stream_result.collected)
            /\ IsRanked(window_bundles)
            /\ stream_result.winners =
                   SubSeq(window_bundles, 1,
                          Min(max_bundles_for_block, Len(window_bundles))))

C11_Witness ==
    /\ StreamDone
    /\ exit_reason = "receiver closed"
    /\ IsWindowOpen(clock, start_time, duration_ms)
    /\ Len(stream_result.winners) = 1
    /\ Len(stream_result.collected) = 2

\* C12: a bundle that the sender submits after the window has closed is never
\* among the winners, whichever of recv() and the timeout the collector sees
\* first, and the sender gets no error for it.
\* Fails for a bundle sent after simulate_auction_window has returned: the
\* receiver is dropped and send returns Err(SendError).
C12_LateBundleDroppedSilently ==
    \A i \in 1..Len(sent_log) :
        sent_log[i].late =>
            /\ sent_log[i].result = "Ok"
            /\ \A j \in 1..Len(window_bundles) :
                   window_bundles[j] # sent_log[i].bundle
            /\ StreamDone =>
                   \A j \in 1..Len(stream_result.winners) :
                       stream_result.winners[j] # sent_log[i].bundle

IsStats(t) == pc[t] = "drop_queue" /\ arg[t].op = "get_stats"

IsTipRange(t) ==
    pc[t] = "drop_bundles" /\ arg[t].op = "get_bundles_by_tip_range"

RECURSIVE SumSeqTips(_)
SumSeqTips(items) ==
    IF items = <<>> THEN 0 ELSE Head(items).tip + SumSeqTips(Tail(items))

\* C27: get_stats returns a snapshot of the pool: total_bundles is the number
\* of bundles of the map, total_tip_value is the sum of the tips of the
\* bundles that get_pending_bundles(total_bundles) returns, and avg_tip is
\* total_tip_value / total_bundles rounded down, 0 for an empty pool.
\* Fails once an id has been added twice: the queue then names that bundle
\* twice and get_pending_bundles counts its tip twice in place of another's.
C27_StatsMatchPending ==
    \A t \in Tasks :
        IsStats(t) =>
            LET n == Cardinality(Keys(bundles))
                pending == GetPendingBundles(bundles, pending_queue, n)
            IN /\ ret[t].total_bundles = n
               /\ ret[t].total_tip_value = SumSeqTips(pending)
               /\ ret[t].avg_tip = IF n = 0 THEN 0
                                   ELSE ret[t].total_tip_value \div n

\* C30: get_bundles_by_tip_range(lo, hi) returns the bundles of the pool
\* whose tip is at least lo and at most hi: every item returned is a bundle
\* of the pool with its tip in the range, and every bundle of the pool with
\* its tip in the range is returned.
C30_TipRangeExact ==
    \A t \in Tasks :
        IsTipRange(t) =>
            /\ \A b \in ret[t].items :
                /\ b.id \in Keys(bundles) /\ bundles[b.id] = b
                /\ arg[t].min_tip <= b.tip /\ b.tip <= arg[t].max_tip
            /\ \A k \in Keys(bundles) :
                (arg[t].min_tip <= bundles[k].tip
                     /\ bundles[k].tip <= arg[t].max_tip)
                    => bundles[k] \in ret[t].items

\* a pool holding tips 1 and 2 is asked for the range [2, 2] and returns the
\* one bundle whose tip is at the upper end
C30_Witness ==
    \E t \in Tasks :
        /\ IsTipRange(t)
        /\ arg[t].min_tip = 2 /\ arg[t].max_tip = 2
        /\ {bundles[k].tip : k \in Keys(bundles)} = {1, 2}
        /\ Cardinality(ret[t].items) = 1

\* C21: the blockhash of an assembled block is a function of its timestamp,
\* its transactions in order and its bundle ids in order: two assemblies that
\* agree on the three have the same blockhash, whichever entry point made
\* them.
\* Fails for BlockAssembler::assemble_block, which takes Hash::new_unique().
C21_BlockhashIsFunctionOfContents ==
    \A i, j \in 1..Len(assemblies) :
        (/\ assemblies[i].timestamp = assemblies[j].timestamp
         /\ assemblies[i].transactions = assemblies[j].transactions
         /\ assemblies[i].bundle_ids = assemblies[j].bundle_ids)
            => assemblies[i].blockhash = assemblies[j].blockhash

\* C22: two assemblies of the same winning bundles made at different times,
\* one right after the other included, have different block hashes.
\* Fails for two calls of the free function within one second of the clock.
C22_DifferentTimesDifferentHashes ==
    \A i, j \in 1..Len(assemblies) :
        assemblies[i].at # assemblies[j].at
            => assemblies[i].blockhash # assemblies[j].blockhash

DoneSubmissions == {i \in 1..Len(submissions) : submissions[i].state = "done"}

\* the checks of a validator, as the claim lists them
PassesOwnChecks(cfg, b) ==
    /\ Len(b.transactions) <= cfg.max_transactions_per_block
    /\ 5000 * Len(b.transactions) <= cfg.max_compute_units_per_block
    /\ \A i \in 1..Len(b.bundles) :
           Range(b.bundles[i].txs) \subseteq Range(b.transactions)
    /\ b.timestamp # 0

\* the log entry that an outcome calls for
RecordedAs(before, after, b, outcome) ==
    IF outcome.kind = "Accepted"
    THEN /\ after.accepted = Append(before.accepted, b)
         /\ after.rejected = before.rejected
    ELSE /\ after.rejected = Append(before.rejected, <<b, outcome.reason>>)
         /\ after.accepted = before.accepted

\* C23: submit_block returns Ok for every block, carrying Accepted{signature}
\* or Rejected{reason}; a completed submission has appended one entry to one
\* log, the block to the accepted log or the block with the same reason to the
\* rejected log; and a validator's two logs together are as long as the number
\* of submissions it has completed since its last clear_history.
C23_OutcomeIsValueAndRecordedOnce ==
    /\ \A i \in DoneSubmissions :
        LET call == submissions[i] IN
        /\ call.result.kind = "Ok"
        /\ call.result.value.kind \in {"Accepted", "Rejected"}
        /\ RecordedAs(call.before, call.after, call.block, call.result.value)
    /\ \A v \in Validators :
        Len(accepted_blocks[v]) + Len(rejected_blocks[v]) = completed[v]

\* one validator has completed two submissions, accepting one block and
\* rejecting the other on the random draw
C23_Witness ==
    /\ DoneSubmissions = {1, 2}
    /\ submissions[1].validator = 1 /\ submissions[2].validator = 1
    /\ Len(accepted_blocks[1]) = 1
    /\ Len(rejected_blocks[1]) = 1
    /\ rejected_blocks[1][1][2] = "Random validation failure"

\* C24: submit_block answers Accepted exactly when the block passes the
\* validator's own checks and the random draw does not fire; the draw never
\* fires at failure_rate 0 and always fires at failure_rate 1; every block of
\* the accepted log is within the limits of its validator.
C24_AcceptedIffChecksPassAndNoDraw ==
    /\ \A i \in DoneSubmissions :
        LET call == submissions[i]
            cfg == validators[call.validator]
            accepted == call.result.value.kind = "Accepted"
            passes == PassesOwnChecks(cfg, call.block)
        IN /\ accepted => passes
           /\ cfg.failure_rate = 0 => (accepted <=> passes)
           /\ cfg.failure_rate = 1000 => ~accepted
           /\ (cfg.failure_rate > 0 /\ cfg.failure_rate < 1000) =>
                  (accepted <=> (passes /\ call.draw >= cfg.failure_rate))
    /\ \A v \in Validators :
        \A k \in 1..Len(accepted_blocks[v]) :
            PassesOwnChecks(validators[v], accepted_blocks[v][k])

\* a validator that fails half of the time has accepted a block and has
\* turned the same block away on the draw
C24_Witness ==
    /\ validators[1].failure_rate = 500
    /\ DoneSubmissions = {1, 2}
    /\ submissions[1].validator = 1 /\ submissions[2].validator = 1
    /\ submissions[1].block = submissions[2].block
    /\ submissions[1].result.value.kind = "Accepted"
    /\ submissions[2].result.value = Rejected("Random validation failure")

\* C25: submit_block_to_network on NumValidators validators returns one
\* (validator_id, result) pair per validator, and when it returns each
\* validator has recorded the block once, in the log its own result names.
C25_OnePairAndOneRecordPerValidator ==
    net.pc = "done" =>
        /\ Len(net.results) = NumValidators
        /\ \A v \in Validators :
            /\ Cardinality({k \in 1..Len(net.results) :
                               net.results[k][1] = ValidatorId(v)}) = 1
            /\ \A k \in 1..Len(net.results) :
                   net.results[k][1] = ValidatorId(v) =>
                       RecordedAs(net.before[v], net.after[v], net.block,
                                  net.results[k][2])

\* a block submitted to the network was accepted by one validator and
\* rejected by another
C25_Witness ==
    /\ net.pc = "done"
    /\ \E k \in 1..Len(net.results) : net.results[k][2].kind = "Accepted"
    /\ \E k \in 1..Len(net.results) : net.results[k][2].kind = "Rejected"

\* the place of an event in the trace of a network submission, 0 if absent
TracePos(e) ==
    IF \E k \in 1..Len(net.trace) : net.trace[k] = e
    THEN CHOOSE k \in 1..Len(net.trace) : net.trace[k] = e
    ELSE 0

\* C26: the block is dispatched to all validators in parallel: when
\* submit_block_to_network has returned, some validator had started its
\* verification before another validator's verification was complete.
\* Fails: the futures are awaited one after the other, and a future does not
\* run before it is awaited.
C26_SubmissionsOverlap ==
    net.pc = "done" =>
        \E v, w \in Validators :
            /\ v # w
            /\ TracePos(<<"start", w>>) < TracePos(<<"finish", v>>)
            /\ TracePos(<<"start", v>>) < TracePos(<<"finish", w>>)


\* (tip, searcher) of each bundle of a sequence, in order
TipsAndSearchers(bs) ==
    [i \in 1..Len(bs) |-> <<bs[i].tip, bs[i].searcher_pubkey>>]

\* the passes of the engine loop in which the window stayed open for every
\* bundle of the key
FullPasses ==
    {i \in 1..Len(runs) : runs[i].admitted = Len(redis_bundles)}

\* C28: two passes of the pipeline over the same bundles, each with every
\* bundle admitted, select the same winners in the same order, equal tips
\* included
C28_SameInputSameWinners ==
    \A i, j \in FullPasses :
        /\ TipsAndSearchers(runs[i].winners) = TipsAndSearchers(runs[j].winners)
        /\ runs[i].ordered_bundles = runs[j].ordered_bundles

\* C29: every winner of a pass and every bundle of an assembled block has
\* between 1 and 5 transactions
C29_WinnersAndBlockBundlesHaveTransactions ==
    /\ \A i \in 1..Len(runs) : \A k \in 1..Len(runs[i].winners) :
           Len(runs[i].winners[k].txs) \in 1..MaxBundleTx
    /\ demo_block # NoBlock =>
           \A k \in 1..Len(demo_block.bundles) :
               Len(demo_block.bundles[k].txs) \in 1..MaxBundleTx

\* =========================================================================
\* Claims on BundleAuction::select_winning_bundles (SpecHeap)
\* =========================================================================
\* how often the bundle b occurs among the bundles of a sequence
RECURSIVE Occurrences(_, _)
Occurrences(bs, b) ==
    IF bs = <<>> THEN 0
    ELSE (IF Head(bs) = b THEN 1 ELSE 0) + Occurrences(Tail(bs), b)

HeldBundles(h) == [i \in 1..Len(h) |-> h[i].bundle]

\* C31: select_winning_bundles(k) on a heap of n bundles returns min(k, n)
\* bundles in non-increasing tip order, the first with the highest tip held,
\* and removes exactly those from the heap: what was held is what was returned
\* plus what is left, and nothing left has a tip above a returned tip.
C31_SelectPopsHighestTips ==
    h_last.op = "select_winning_bundles" =>
        LET ws == h_last.winners
            before == HeldBundles(h_last.before)
            left == HeldBundles(auction_heap)
        IN /\ Len(ws) = Min(h_last.max_bundles, Len(before))
           /\ \A i, j \in 1..Len(ws) : i < j => ws[i].tip >= ws[j].tip
           /\ ws # <<>> => \A i \in 1..Len(before) : before[i].tip <= ws[1].tip
           /\ \A b \in HeapBundle :
                  Occurrences(before, b) = Occurrences(ws, b) + Occurrences(left, b)
           /\ \A i \in 1..Len(left), j \in 1..Len(ws) : left[i].tip <= ws[j].tip

C31_Witness ==
    /\ h_last.op = "select_winning_bundles"
    /\ h_last.max_bundles = 1
    /\ Len(h_last.before) = 2
    /\ h_last.before[1].priority_score < h_last.before[2].priority_score
    /\ Len(h_last.winners) = 1
    /\ Len(auction_heap) = 1
    /\ auction_heap[1].priority_score < h_last.winners[1].tip

\* =========================================================================
\* Claims on BundleAuction over MockSolanaRpcClient (SpecMockAuction)
\* =========================================================================
\* the mock is not configured to fail the transaction
NotConfiguredToFail(tx) ==
    tx.signatures = <<>> \/ tx.signatures[1] \notin simulation_failures

\* C32: after add_bundle has rejected a bundle for a failed simulation, an
\* add_bundle of a bundle with one transaction that is not configured to
\* fail, a default-constructed transaction included, returns Ok and the
\* bundle is held.
C32_AuctionWorksAfterRejection ==
    (/\ h_last.op = "add_bundle"
     /\ h_last.after_rejection
     /\ Len(h_last.bundle.txs) = 1
     /\ NotConfiguredToFail(h_last.bundle.txs[1]))
        => /\ h_last.result = "Ok"
           /\ auction_heap = HeapPush(h_last.before, h_last.bundle)

\* =========================================================================
\* Claims on MockValidatorClient (SpecValidatorClient)
\* =========================================================================
RECURSIVE SuccessfulBlocks(_)
\* the blocks of the calls that returned Ok, in the order of the calls
SuccessfulBlocks(log) ==
    IF log = <<>> THEN <<>>
    ELSE (IF Head(log).kind = "Ok" THEN <<Head(log).block>> ELSE <<>>)
             \o SuccessfulBlocks(Tail(log))

\* C33: in failure mode submit_block returns an error and records nothing;
\* otherwise it returns a signature and appends the block as the last element
\* of the submitted list, which so holds the successfully submitted blocks in
\* submission order.
C33_ClientRecordsSuccessesInOrder ==
    /\ \A i \in 1..Len(client_log) :
           LET call == client_log[i] IN
           /\ call.failure_mode => call.kind = "Err" /\ call.after = call.before
           /\ ~call.failure_mode =>
                  /\ call.kind = "Ok"
                  /\ call.after = Append(call.before, call.block)
    /\ submitted_blocks = SuccessfulBlocks(client_log)

C33_Witness ==
    /\ Len(client_log) = 3
    /\ client_log[1].kind = "Ok"
    /\ client_log[2].kind = "Err"
    /\ client_log[3].kind = "Ok"
    /\ client_log[1].block # client_log[3].block
    /\ Len(submitted_blocks) = 2

\* =========================================================================
\* Further claims on TransactionPool (SpecPool, SpecPoolFair)
\* =========================================================================
\* C34: add_bundle validates before it checks the capacity: a bundle with 0 or
\* more than 5 transactions offered to a pool that holds max_pool_size bundles
\* is rejected with InvalidBundle, not with PoolFull.
C34_InvalidBundleBeforePoolFull ==
    \A t \in Tasks :
        (/\ IsAdd(t)
         /\ Validate(arg[t].bundle) # "Ok"
         /\ Cardinality(Keys(pre[t].bundles)) >= max_pool_size)
            => ret[t].kind = "InvalidBundle"


\* C35: whenever no call is inside a write critical section, the pending queue
\* holds each id at most once and is as long as the map is large
\* (pending_count = total_bundles), so no longer than max_pool_size, and
\* get_pending_bundles never returns a bundle twice.
C35_QueueHoldsEachIdOnce ==
    /\ (bundles_lock.writer = {} /\ queue_lock.writer = {}) =>
           /\ \A i, j \in 1..Len(pending_queue) :
                  i # j => pending_queue[i] # pending_queue[j]
           /\ Len(pending_queue) = Cardinality(Keys(bundles))
           /\ Len(pending_queue) <= max_pool_size
    /\ \A t \in Tasks :
           IsGetPending(t) =>
               \A i, j \in 1..Len(ret[t].items) :
                   i # j => ret[t].items[i].id # ret[t].items[j].id

\* =========================================================================
\* Claims on simulate_auction_with_bundles (SpecPreCollected) and on the two
\* entry points together (SpecEntryPoints)
\* =========================================================================
PreDone == pre_pc = "done"

\* C37: each supplied bundle enters the window iff the window is open at the
\* moment of its try_add_bundle call; after one bundle has been dropped every
\* later one is dropped, so the admitted bundles are a prefix of the input;
\* the function returns Ok with winners among that prefix and never an error.
C37_AdmittedIsPrefixOfInput ==
    /\ \A i \in 1..Len(pre_log) :
           /\ pre_log[i].bundle = pre_input[i]
           /\ pre_log[i].result.kind = "Ok"
           /\ pre_log[i].result.value
                  <=> ElapsedMillis(pre_log[i].at, start_time) < duration_ms
    /\ \A i, j \in 1..Len(pre_log) :
           (i < j /\ ~pre_log[i].result.value) => ~pre_log[j].result.value
    /\ Len(collected) <= Len(pre_input)
    /\ collected = SubSeq(pre_input, 1, Len(collected))
    /\ PreDone =>
           /\ Len(pre_log) = Len(pre_input)
           /\ pre_result.kind = "Ok"
           /\ \A k \in 1..Len(pre_result.winners) :
                  \E i \in 1..Len(collected) :
                      pre_result.winners[k] = pre_input[i]

C37_Witness ==
    /\ PreDone
    /\ Len(pre_input) = 2
    /\ pre_log[1].result.value
    /\ ~pre_log[2].result.value
    /\ pre_result.winners = <<pre_input[1]>>


\* what the entry point that ran returned
EntryResult == IF PreDone THEN pre_result ELSE stream_result

EntryDone == PreDone \/ StreamDone

C38_DeleteDiscardsNothing ==
    loop_pc \in {"lrange", "sleep"} =>
        \A k \in 1..pushes : k \in taken \/ k \in Range(redis_key)

\* =========================================================================
\* Claims on concurrent pool calls (SpecPoolCallsFair)
\* =========================================================================
Holds(l, t) == t \in l.writer \/ t \in l.readers

AllCallsComplete == \A t \in Tasks : todo[t] = "none" /\ pc[t] = "idle"

\* C39: a task holds the queue lock only while it holds the map lock, holds
\* neither once its call has returned, and every call of a set started
\* together completes.
C39_ConcurrentCallsComplete ==
    /\ [](\A t \in Tasks :
              /\ Holds(queue_lock, t) => Holds(bundles_lock, t)
              /\ pc[t] = "idle" =>
                     ~Holds(queue_lock, t) /\ ~Holds(bundles_lock, t))
    /\ <>AllCallsComplete

\* a writer waits for the map while another writer holds both locks
C39_Witness ==
    \E t, u \in Tasks :
        /\ t # u
        /\ bundles_lock.writer = {t} /\ queue_lock.writer = {t}
        /\ pc[u] = "idle" /\ IsWriterOp(todo[u])

\* =========================================================================
\* Further claims on the engine loop (SpecPipeline)
\* =========================================================================
\* the place in the input of the bundle a winner was made from: main.rs:65-72
\* makes the i-th internal bundle from the i-th input bundle, and its id is
\* the Uuid drawn for it
SourceOf(run, winner) ==
    CHOOSE i \in 1..Len(run.uuids) : run.uuids[i] = winner.id

\* C40: the ordered_bundles of a pass are the input bundles the winners were
\* made from, each once and in winner order, also when two input bundles have
\* the same tip and the same searcher_pubkey.
C40_OrderedBundlesAreTheWinners ==
    \A r \in 1..Len(runs) :
        /\ Len(runs[r].ordered_bundles) = Len(runs[r].winners)
        /\ \A k \in 1..Len(runs[r].winners) :
               runs[r].ordered_bundles[k] =
                   redis_bundles[SourceOf(runs[r], runs[r].winners[k])]

=============================================================================
